---- MODULE Spec2Model ----
(***************************************************************************)
(* Model of the editing-transaction engine of AgIsoTerminalDesigner:       *)
(* EditorProject (src/src/editor_project.rs) and the handlers of the UI    *)
(* tick that drive it (src/src/main.rs, src/src/object_configuring.rs).    *)
(*                                                                         *)
(* The whole EditorProject is one record, `project`; every method of the   *)
(* type is an operator from a project record to a project record (or to a  *)
(* record holding the new project and the returned value), and every       *)
(* action applies one handler to `project`.  Stacks are sequences whose    *)
(* top is the last element, as Vec::push / Vec::pop.                       *)
(***************************************************************************)
EXTENDS Integers, Sequences, FiniteSets, TLC

(***************************************************************************)
(* Program constants                                                       *)
(***************************************************************************)
MAX_UNDO_REDO_POOL == 10
MAX_UNDO_REDO_SELECTED == 20
U16_MAX == 65535
\* NullableObjectId::NULL, and the value ObjectId::new rejects
NULL_ID == U16_MAX

(***************************************************************************)
(* Bounds of the model                                                     *)
(***************************************************************************)
\* staged edits (create, delete, renumber, select) per behaviour of Spec
MaxEdits == 3
\* staged pool edits per behaviour of HistSpec: more than MAX_UNDO_REDO_POOL
MaxHistEdits == 12
\* staged selections per behaviour of SelSpec: more than MAX_UNDO_REDO_SELECTED
MaxSelEdits == 22
\* inputs of the user (staged edits, menu items, the slider) per behaviour of
\* TickSpec
MaxTickEdits == 3
\* staged edits per behaviour of InfoSpec
MaxInfoEdits == 4
\* objects per pool file read in NameSpec
MaxNamePoolLen == 3
\* objects per pool in MenuSpec
MaxMenuPoolLen == 2

\* ids the id editor may type and the selection may be staged to, in Spec
EditIds == {1, 2}
\* object types offered by the "Add object" menu in the model
NewObjectTypes == {"DataMask"}
\* names typed into the new-object dialog and the rename field in the model
NewObjectNames == {"Custom"}

(***************************************************************************)
(* Objects and pools (ag_iso_stack::object_pool, used through its API)     *)
(***************************************************************************)
Obj(i, t) == [id |-> i, type |-> t]

\* the imported pools a project is created from
ImportPools ==
    { <<>>,
      <<Obj(1, "DataMask")>>,
      <<Obj(0, "WorkingSet"), Obj(1, "DataMask")>>,
      <<Obj(65534, "DataMask")>> }

RECURSIVE SeqMax(_)
SeqMax(s) ==
    IF s = <<>> THEN 0
    ELSE LET m == SeqMax(Tail(s)) IN IF Head(s) > m THEN Head(s) ELSE m

PoolIds(pool) == { pool[i].id : i \in DOMAIN pool }

\* pool.object_by_id(id).is_some()
HasObject(pool, id) == id \in PoolIds(pool)

\* pool.objects().iter().map(|obj| obj.id().value()).max().unwrap_or(0)
MaxObjectId(pool) == SeqMax([i \in DOMAIN pool |-> pool[i].id])

\* u16::saturating_add(1)
SaturatingAdd1(v) == IF v >= U16_MAX THEN U16_MAX ELSE v + 1

\* ObjectId::new(v).unwrap_or_default(): 65535 is rejected, the default id is 0
ObjectIdOrDefault(v) == IF v = NULL_ID THEN 0 ELSE v

\* pool.add(object): appended to the insertion-ordered collection
PoolAdd(pool, o) == Append(pool, o)

\* pool.remove(id): every object with that id is dropped, nothing else changes
PoolRemove(pool, id) == SelectSeq(pool, LAMBDA o : o.id # id)

\* index of the object object_mut_by_id(id) returns (the first with that id)
FirstIndexOf(pool, id) ==
    CHOOSE i \in DOMAIN pool :
        /\ pool[i].id = id
        /\ \A j \in DOMAIN pool : pool[j].id = id => i <= j

(***************************************************************************)
(* EditorProject                                                           *)
(***************************************************************************)
\* HashMap::new() of object_info: the table from object ids to ObjectInfo, empty
EmptyInfo == [i \in {} |-> [unique_id |-> 0, name |-> <<>>]]

\* HashMap::new() of default_object_names: the cache from object ids to the
\* default name made for an object without ObjectInfo, empty
EmptyDefaultNames == [i \in {} |-> ""]

\* the mask sizes the "Virtual Mask size" slider is dragged to and project files
\* are saved with
MaskSizes == {100, 480}

\* ObjectPool::get_minimum_mask_sizes, the mask size: the pools of the model
\* need no more than the smallest size the mask size slider offers
get_minimum_mask_sizes(pool) == 100

\* mutation of From: the cursor starts at the highest id in use
FromPool_CursorAtMax(pool) ==
    [ pool                  |-> pool,
      mut_pool              |-> pool,
      undo_pool_history     |-> <<>>,
      redo_pool_history     |-> <<>>,
      selected_object       |-> NULL_ID,
      mut_selected_object   |-> NULL_ID,
      undo_selected_history |-> <<>>,
      redo_selected_history |-> <<>>,
      next_available_id     |-> MaxObjectId(pool),
      object_info           |-> EmptyInfo,
      default_object_names  |-> EmptyDefaultNames,
      uuids_drawn           |-> 0,
      mask_size             |-> get_minimum_mask_sizes(pool) ]

\* impl From<ObjectPool> for EditorProject
FromPool(pool) ==
    [ pool                  |-> pool,
      mut_pool              |-> pool,
      undo_pool_history     |-> <<>>,
      redo_pool_history     |-> <<>>,
      selected_object       |-> NULL_ID,
      mut_selected_object   |-> NULL_ID,
      undo_selected_history |-> <<>>,
      redo_selected_history |-> <<>>,
      next_available_id     |-> SaturatingAdd1(MaxObjectId(pool)),
      object_info           |-> EmptyInfo,
      default_object_names  |-> EmptyDefaultNames,
      uuids_drawn           |-> 0,
      mask_size             |-> get_minimum_mask_sizes(pool) ]

\* Vec::drain(..n): the first n elements are removed
DrainFront(s, n) == SubSeq(s, n + 1, Len(s))

\* mutation of PushBounded: the eviction drops the newest entries, not the oldest
PushBounded_KeepOldest(s, e, max) ==
    LET pushed == Append(s, e)
    IN  IF Len(pushed) > max THEN SubSeq(pushed, 1, max) ELSE pushed

\* Vec::push followed by the eviction of update_pool / update_selected
PushBounded(s, e, max) ==
    LET pushed == Append(s, e)
    IN  IF Len(pushed) > max THEN DrainFront(pushed, Len(pushed) - max) ELSE pushed

\* Vec::pop on a non-empty stack: the stack that remains
Pop(s) == SubSeq(s, 1, Len(s) - 1)
Top(s) == s[Len(s)]

\* mutation of update_next_available_id: the cursor is left where it was
update_next_available_id_KeepCursor(p) == p

\* EditorProject::update_next_available_id
update_next_available_id(p) ==
    [p EXCEPT !.next_available_id = SaturatingAdd1(MaxObjectId(p.pool))]

\* mutation of update_pool: the committed pool is not replaced by the staged one
update_pool_NoAdopt(p) ==
    IF p.mut_pool # p.pool
    THEN [ project |-> [p EXCEPT !.redo_pool_history = <<>>,
                                 !.undo_pool_history =
                                     PushBounded(p.undo_pool_history, p.pool, MAX_UNDO_REDO_POOL),
                                 !.default_object_names = EmptyDefaultNames],
           ret |-> TRUE ]
    ELSE [ project |-> p, ret |-> FALSE ]

\* mutation of update_pool: the undo stack is never evicted
update_pool_Unbounded(p) ==
    IF p.mut_pool # p.pool
    THEN [ project |-> [p EXCEPT !.redo_pool_history = <<>>,
                                 !.undo_pool_history = Append(p.undo_pool_history, p.pool),
                                 !.pool = p.mut_pool,
                                 !.default_object_names = EmptyDefaultNames],
           ret |-> TRUE ]
    ELSE [ project |-> p, ret |-> FALSE ]

\* mutation of update_pool: the redo stack survives the commit
update_pool_KeepRedo(p) ==
    IF p.mut_pool # p.pool
    THEN [ project |-> [p EXCEPT !.undo_pool_history =
                                     PushBounded(p.undo_pool_history, p.pool, MAX_UNDO_REDO_POOL),
                                 !.pool = p.mut_pool,
                                 !.default_object_names = EmptyDefaultNames],
           ret |-> TRUE ]
    ELSE [ project |-> p, ret |-> FALSE ]

\* EditorProject::update_pool: the project afterwards and the value returned
update_pool(p) ==
    IF p.mut_pool # p.pool
    THEN [ project |-> [p EXCEPT !.redo_pool_history = <<>>,
                                 !.undo_pool_history =
                                     PushBounded(p.undo_pool_history, p.pool, MAX_UNDO_REDO_POOL),
                                 !.pool = p.mut_pool,
                                 !.default_object_names = EmptyDefaultNames],
           ret |-> TRUE ]
    ELSE [ project |-> p, ret |-> FALSE ]

\* mutation of undo: the committed pool is not pushed onto the redo stack
undo_NoRedoPush(p) ==
    IF p.undo_pool_history # <<>>
    THEN update_next_available_id(
             [p EXCEPT !.undo_pool_history = Pop(p.undo_pool_history),
                       !.pool = Top(p.undo_pool_history),
                       !.mut_pool = Top(p.undo_pool_history),
                       !.default_object_names = EmptyDefaultNames])
    ELSE p

\* mutation of undo: only the committed pool is replaced, the staged pool is kept
undo_KeepStaged(p) ==
    IF p.undo_pool_history # <<>>
    THEN update_next_available_id(
             [p EXCEPT !.undo_pool_history = Pop(p.undo_pool_history),
                       !.redo_pool_history = Append(p.redo_pool_history, p.pool),
                       !.pool = Top(p.undo_pool_history),
                       !.default_object_names = EmptyDefaultNames])
    ELSE p

\* mutation of undo: the staged pool, not the committed one, goes to the redo stack
undo_PushStaged(p) ==
    IF p.undo_pool_history # <<>>
    THEN update_next_available_id(
             [p EXCEPT !.undo_pool_history = Pop(p.undo_pool_history),
                       !.redo_pool_history = Append(p.redo_pool_history, p.mut_pool),
                       !.pool = Top(p.undo_pool_history),
                       !.mut_pool = Top(p.undo_pool_history),
                       !.default_object_names = EmptyDefaultNames])
    ELSE p

\* mutation of undo: the metadata of objects the restored pool lacks is dropped
undo_DropInfo(p) ==
    IF p.undo_pool_history # <<>>
    THEN update_next_available_id(
             [p EXCEPT !.undo_pool_history = Pop(p.undo_pool_history),
                       !.redo_pool_history = Append(p.redo_pool_history, p.pool),
                       !.pool = Top(p.undo_pool_history),
                       !.mut_pool = Top(p.undo_pool_history),
                       !.object_info =
                           [i \in DOMAIN @ \cap PoolIds(Top(p.undo_pool_history)) |-> @[i]],
                       !.default_object_names = EmptyDefaultNames])
    ELSE p

\* EditorProject::undo
undo(p) ==
    IF p.undo_pool_history # <<>>
    THEN update_next_available_id(
             [p EXCEPT !.undo_pool_history = Pop(p.undo_pool_history),
                       !.redo_pool_history = Append(p.redo_pool_history, p.pool),
                       !.pool = Top(p.undo_pool_history),
                       !.mut_pool = Top(p.undo_pool_history),
                       !.default_object_names = EmptyDefaultNames])
    ELSE p

\* EditorProject::undo_available
undo_available(p) == p.undo_pool_history # <<>>

\* mutation of redo: the committed pool is not pushed onto the undo stack
redo_NoUndoPush(p) ==
    IF p.redo_pool_history # <<>>
    THEN update_next_available_id(
             [p EXCEPT !.redo_pool_history = Pop(p.redo_pool_history),
                       !.pool = Top(p.redo_pool_history),
                       !.mut_pool = Top(p.redo_pool_history),
                       !.default_object_names = EmptyDefaultNames])
    ELSE p

\* EditorProject::redo
redo(p) ==
    IF p.redo_pool_history # <<>>
    THEN update_next_available_id(
             [p EXCEPT !.redo_pool_history = Pop(p.redo_pool_history),
                       !.undo_pool_history = Append(p.undo_pool_history, p.pool),
                       !.pool = Top(p.redo_pool_history),
                       !.mut_pool = Top(p.redo_pool_history),
                       !.default_object_names = EmptyDefaultNames])
    ELSE p

\* EditorProject::redo_available
redo_available(p) == p.redo_pool_history # <<>>

\* mutation of update_selected: the old selection is pushed whatever the new one is
update_selected_AlwaysPush(p) ==
    LET mut_selected == p.mut_selected_object
    IN  IF mut_selected # p.selected_object
        THEN [ project |-> [p EXCEPT !.redo_selected_history = <<>>,
                                     !.undo_selected_history =
                                         PushBounded(p.undo_selected_history,
                                                     p.selected_object,
                                                     MAX_UNDO_REDO_SELECTED),
                                     !.selected_object = mut_selected],
               ret |-> TRUE ]
        ELSE [ project |-> p, ret |-> FALSE ]

\* mutation of update_selected: the selection undo stack is never evicted
update_selected_Unbounded(p) ==
    LET mut_selected == p.mut_selected_object
    IN  IF mut_selected # p.selected_object
        THEN [ project |-> [p EXCEPT !.redo_selected_history = <<>>,
                                     !.undo_selected_history =
                                         IF mut_selected # NULL_ID
                                         THEN Append(p.undo_selected_history, p.selected_object)
                                         ELSE p.undo_selected_history,
                                     !.selected_object = mut_selected],
               ret |-> TRUE ]
        ELSE [ project |-> p, ret |-> FALSE ]

\* mutation of update_selected: the staged selection is not adopted
update_selected_KeepCommitted(p) ==
    LET mut_selected == p.mut_selected_object
    IN  IF mut_selected # p.selected_object
        THEN [ project |-> [p EXCEPT !.redo_selected_history = <<>>,
                                     !.undo_selected_history =
                                         IF mut_selected # NULL_ID
                                         THEN PushBounded(p.undo_selected_history,
                                                          p.selected_object,
                                                          MAX_UNDO_REDO_SELECTED)
                                         ELSE p.undo_selected_history],
               ret |-> TRUE ]
        ELSE [ project |-> p, ret |-> FALSE ]

\* EditorProject::update_selected: the project afterwards and the value returned
update_selected(p) ==
    LET mut_selected == p.mut_selected_object
    IN  IF mut_selected # p.selected_object
        THEN [ project |-> [p EXCEPT !.redo_selected_history = <<>>,
                                     !.undo_selected_history =
                                         IF mut_selected # NULL_ID
                                         THEN PushBounded(p.undo_selected_history,
                                                          p.selected_object,
                                                          MAX_UNDO_REDO_SELECTED)
                                         ELSE p.undo_selected_history,
                                     !.selected_object = mut_selected],
               ret |-> TRUE ]
        ELSE [ project |-> p, ret |-> FALSE ]

\* mutation of set_previous_selected: the staged selection is left as it was
set_previous_selected_KeepStaged(p) ==
    IF p.undo_selected_history # <<>>
    THEN [p EXCEPT !.undo_selected_history = Pop(p.undo_selected_history),
                   !.redo_selected_history = Append(p.redo_selected_history, p.selected_object),
                   !.selected_object = Top(p.undo_selected_history)]
    ELSE p

\* EditorProject::set_previous_selected
set_previous_selected(p) ==
    IF p.undo_selected_history # <<>>
    THEN [p EXCEPT !.undo_selected_history = Pop(p.undo_selected_history),
                   !.redo_selected_history = Append(p.redo_selected_history, p.selected_object),
                   !.selected_object = Top(p.undo_selected_history),
                   !.mut_selected_object = Top(p.undo_selected_history)]
    ELSE p

\* EditorProject::set_next_selected
set_next_selected(p) ==
    IF p.redo_selected_history # <<>>
    THEN [p EXCEPT !.redo_selected_history = Pop(p.redo_selected_history),
                   !.undo_selected_history = Append(p.undo_selected_history, p.selected_object),
                   !.selected_object = Top(p.redo_selected_history),
                   !.mut_selected_object = Top(p.redo_selected_history)]
    ELSE p

(***************************************************************************)
(* ID allocator                                                            *)
(***************************************************************************)
\* the full scan `for id in 1..=u16::MAX` of allocate_object_id, from `id` on:
\* the first id whose lookup finds no object, or NULL_ID + 1 when there is none
RECURSIVE FullScan(_, _)
FullScan(pool, id) ==
    IF ~HasObject(pool, ObjectIdOrDefault(id)) THEN id
    ELSE IF id = U16_MAX THEN U16_MAX + 1
    ELSE FullScan(pool, id + 1)

\* the `while` loop of allocate_object_id started with the cursor at `next`:
\* "found" with the cursor it stops at, "panic" when the full scan finds no gap,
\* "diverges" when an iteration leaves the cursor and the loop condition as they were
RECURSIVE AllocLoop(_, _)
AllocLoop(pool, next) ==
    IF ~HasObject(pool, ObjectIdOrDefault(next))
    THEN [outcome |-> "found", next |-> next]
    ELSE LET n == SaturatingAdd1(next)
         IN  IF n = 0
             THEN LET gap == FullScan(pool, 1)
                  IN  IF gap > U16_MAX
                      THEN [outcome |-> "panic", next |-> n]
                      ELSE [outcome |-> "found", next |-> gap]
             ELSE IF n = next
             THEN [outcome |-> "diverges", next |-> n]
             ELSE AllocLoop(pool, n)

\* mutation of allocate_object_id: the cursor is handed out without the lookup loop
allocate_object_id_NoCheck(p) ==
    [ project |-> [p EXCEPT !.next_available_id = SaturatingAdd1(p.next_available_id)],
      outcome |-> "ok",
      id      |-> ObjectIdOrDefault(p.next_available_id) ]

\* EditorProject::allocate_object_id: the project afterwards, how the call ends
\* and the id returned when it returns
allocate_object_id(p) ==
    LET r == AllocLoop(p.pool, p.next_available_id)
    IN  IF r.outcome = "found"
        THEN [ project |-> [p EXCEPT !.next_available_id = SaturatingAdd1(r.next)],
               outcome |-> "ok",
               id      |-> ObjectIdOrDefault(r.next) ]
        ELSE [ project |-> [p EXCEPT !.next_available_id = r.next],
               outcome |-> r.outcome,
               id      |-> NULL_ID ]

(***************************************************************************)
(* Object metadata: object_info, keyed by object id                        *)
(***************************************************************************)
\* HashMap::insert and HashMap::remove on the table
InfoInsert(info, id, v) ==
    [i \in DOMAIN info \cup {id} |-> IF i = id THEN v ELSE info[i]]

InfoRemove(info, id) == [i \in DOMAIN info \ {id} |-> info[i]]

\* Uuid::new_v4() after uuids_drawn earlier draws.  A random 128-bit value is
\* told apart from the others only by equality, so the model names it by the
\* ordinal of its draw: the value differs from every value drawn before, whether
\* a table entry still holds that one or not.
FreshUuid(uuids_drawn) == uuids_drawn + 1

\* ObjectInfo::new: a fresh unique id and no name (Option<String> as a sequence
\* of at most one string)
ObjectInfo_new(uuids_drawn) == [unique_id |-> FreshUuid(uuids_drawn), name |-> <<>>]

\* mutation of set_name: the empty name is stored like any other
set_name_StoreEmpty(i, name) == [i EXCEPT !.name = <<name>>]

\* ObjectInfo::set_name: an empty name is ignored
set_name(i, name) == IF name # "" THEN [i EXCEPT !.name = <<name>>] ELSE i

\* object_info.entry(id).or_insert_with(|| ObjectInfo::new(object)): the project
\* afterwards
InfoEntry(p, id) ==
    IF id \in DOMAIN p.object_info THEN p
    ELSE [p EXCEPT !.object_info = InfoInsert(@, id, ObjectInfo_new(p.uuids_drawn)),
                   !.uuids_drawn = @ + 1]

\* EditorProject::get_object_info: the project afterwards and the info returned
get_object_info(p, object) ==
    LET e == InfoEntry(p, object.id)
    IN  [ project |-> e, info |-> e.object_info[object.id] ]

\* EditorProject::update_object_id_for_info
update_object_id_for_info(p, old_id, new_id) ==
    IF old_id \in DOMAIN p.object_info
    THEN [p EXCEPT !.object_info =
              InfoInsert(InfoRemove(p.object_info, old_id), new_id, p.object_info[old_id])]
    ELSE p

\* EditorProject::finish_renaming_object(store) while the object with id
\* object_id is being renamed to name
finish_renaming_object(p, object_id, name, store) ==
    IF store /\ object_id \in DOMAIN p.object_info
    THEN [p EXCEPT !.object_info[object_id] = set_name(@, name)]
    ELSE p

(***************************************************************************)
(* Handlers of the UI tick that stage edits                                *)
(***************************************************************************)
\* DesignerApp::update, "Create" of the new-object dialog: allocate an id, add the
\* object to the staged pool, store the name typed into the dialog, stage the
\* selection of the new object
create_object(p, type, name) ==
    LET a == allocate_object_id(p)
    IN  IF a.outcome = "ok"
        THEN [ project |-> [InfoEntry(a.project, a.id) EXCEPT
                               !.mut_pool = PoolAdd(p.mut_pool, Obj(a.id, type)),
                               !.object_info[a.id] = set_name(@, name),
                               !.mut_selected_object = a.id],
               outcome |-> "ok", id |-> a.id ]
        ELSE a

\* mutation of delete_object: the references to the object are removed with it
delete_object_Cascade(p, id) ==
    [p EXCEPT !.mut_pool =
        [ i \in DOMAIN PoolRemove(p.mut_pool, id) |->
            LET o == PoolRemove(p.mut_pool, id)[i]
            IN  IF "object_refs" \in DOMAIN o
                THEN [o EXCEPT !.object_refs = SelectSeq(@, LAMBDA r : r # id)]
                ELSE o ]]

\* render_selectable_object, "Delete" of the context menu
delete_object(p, id) == [p EXCEPT !.mut_pool = PoolRemove(p.mut_pool, id)]

\* render_object_id on the object of the staged pool that has the committed
\* selection's id, the drag value changed to new_id: a conflict with the committed
\* pool rejects the change, otherwise the object is renumbered and selected
render_object_id(p, new_id) ==
    LET id == p.selected_object
        conflict == HasObject(p.pool, new_id) /\ new_id # id
    IN  IF ~conflict
        THEN [p EXCEPT !.mut_pool[FirstIndexOf(p.mut_pool, id)].id = new_id,
                       !.mut_selected_object = new_id]
        ELSE p

\* the object list of the left panel: render_selectable_object, and with it
\* get_object_info, for the objects of the committed pool from the i-th on
RECURSIVE render_object_list(_, _)
render_object_list(p, i) ==
    IF i > Len(p.pool) THEN p
    ELSE render_object_list(get_object_info(p, p.pool[i]).project, i + 1)

\* render_selectable_object on the object being renamed when its text field
\* loses focus with `name` typed: get_object_info, then finish_renaming_object
rename_object(p, object, name, cancelled) ==
    finish_renaming_object(get_object_info(p, object).project, object.id, name, ~cancelled)

\* get_mut_selected().replace(v): a click on an object of the hierarchy, or any
\* other write of the staged selection
select_object(p, v) == [p EXCEPT !.mut_selected_object = v]

(***************************************************************************)
(* Relationship schema: get_allowed_child_refs                             *)
(***************************************************************************)
\* the VT versions, ordered as VtVersion is
VtVersions == 0 .. 6

\* the object types the sources name
ObjectTypes ==
    { "AlarmMask",
      "Animation",
      "AuxiliaryControlDesignatorType2",
      "AuxiliaryFunctionType1",
      "AuxiliaryFunctionType2",
      "AuxiliaryInputType1",
      "AuxiliaryInputType2",
      "Button",
      "ColourMap",
      "ColourPalette",
      "Container",
      "DataMask",
      "ExtendedInputAttributes",
      "ExternalObjectDefinition",
      "ExternalObjectPointer",
      "ExternalReferenceName",
      "FillAttributes",
      "FontAttributes",
      "GraphicData",
      "GraphicsContext",
      "InputAttributes",
      "InputBoolean",
      "InputList",
      "InputNumber",
      "InputString",
      "Key",
      "KeyGroup",
      "LineAttributes",
      "Macro",
      "NumberVariable",
      "ObjectLabelReferenceList",
      "ObjectPointer",
      "OutputArchedBarGraph",
      "OutputEllipse",
      "OutputLine",
      "OutputLinearBarGraph",
      "OutputList",
      "OutputMeter",
      "OutputNumber",
      "OutputPolygon",
      "OutputRectangle",
      "OutputString",
      "PictureGraphic",
      "ScaledGraphic",
      "SoftKeyMask",
      "StringVariable",
      "WindowMask",
      "WorkingSet",
      "WorkingSetSpecialControls" }

\* mutation of When: the types are added when the version test fails
When_Negated(cond, types) == IF cond THEN <<>> ELSE types

\* `if cond { allowed_objects.push(..) / extend_from_slice(..) }`
When(cond, types) == IF cond THEN types ELSE <<>>

\* impl AllowedChildRefs for WorkingSet
WorkingSet_get_allowed_child_refs(version) ==
    << "OutputString",
       "OutputNumber",
       "OutputLine",
       "OutputRectangle",
       "OutputEllipse",
       "OutputPolygon",
       "PictureGraphic" >>
    \o When(version >= 4,
            << "OutputList",
               "OutputMeter",
               "OutputLinearBarGraph",
               "OutputArchedBarGraph",
               "GraphicsContext",
               "ObjectPointer" >>)
    \o When(version >= 6,
            << "ScaledGraphic" >>)

\* impl AllowedChildRefs for DataMask
DataMask_get_allowed_child_refs(version) ==
    << "Container",
       "Button",
       "InputBoolean",
       "InputString",
       "InputNumber",
       "InputList",
       "OutputString",
       "OutputNumber",
       "OutputLine",
       "OutputRectangle",
       "OutputEllipse",
       "OutputPolygon",
       "OutputMeter",
       "OutputLinearBarGraph",
       "OutputArchedBarGraph",
       "PictureGraphic",
       "ObjectPointer" >>
    \o When(version >= 3,
            << "WorkingSet" >>)
    \o When(version >= 4,
            << "OutputList",
               "GraphicsContext" >>)
    \o When(version >= 5,
            << "Animation",
               "ExternalObjectPointer" >>)
    \o When(version >= 6,
            << "ScaledGraphic" >>)

\* impl AllowedChildRefs for AlarmMask
AlarmMask_get_allowed_child_refs(version) ==
    << "Container",
       "OutputString",
       "OutputNumber",
       "OutputLine",
       "OutputRectangle",
       "OutputEllipse",
       "OutputPolygon",
       "OutputMeter",
       "OutputLinearBarGraph",
       "OutputArchedBarGraph",
       "PictureGraphic",
       "ObjectPointer" >>
    \o When(version >= 3,
            << "WorkingSet" >>)
    \o When(version >= 4,
            << "OutputList",
               "GraphicsContext" >>)
    \o When(version >= 5,
            << "Animation",
               "ExternalObjectPointer" >>)
    \o When(version >= 6,
            << "ScaledGraphic" >>)

\* mutation of the Container rule: the rule of AlarmMask in place of DataMask's
Container_get_allowed_child_refs_OtherRule(version) ==
    AlarmMask_get_allowed_child_refs(version)

\* impl AllowedChildRefs for Container: the rule of DataMask
Container_get_allowed_child_refs(version) ==
    DataMask_get_allowed_child_refs(version)

\* impl AllowedChildRefs for SoftKeyMask
SoftKeyMask_get_allowed_child_refs(version) ==
    << "Key",
       "ObjectPointer" >>
    \o When(version >= 5,
            << "ExternalObjectPointer" >>)

\* impl AllowedChildRefs for Key
Key_get_allowed_child_refs(version) ==
    << "Container",
       "OutputString",
       "OutputNumber",
       "OutputLine",
       "OutputRectangle",
       "OutputEllipse",
       "OutputPolygon",
       "PictureGraphic",
       "ObjectPointer" >>
    \o When(version >= 4,
            << "WorkingSet",
               "OutputList",
               "OutputMeter",
               "OutputLinearBarGraph",
               "OutputArchedBarGraph",
               "GraphicsContext" >>)
    \o When(version >= 5,
            << "Animation",
               "ExternalObjectPointer" >>)
    \o When(version >= 6,
            << "ScaledGraphic" >>)

\* impl AllowedChildRefs for Button: the rule of Key
Button_get_allowed_child_refs(version) ==
    Key_get_allowed_child_refs(version)

\* impl AllowedChildRefs for InputList
InputList_get_allowed_child_refs(version) ==
    << "OutputString",
       "OutputNumber",
       "PictureGraphic" >>
    \o When(version >= 4,
            << "WorkingSet",
               "Container",
               "OutputList",
               "OutputLine",
               "OutputRectangle",
               "OutputEllipse",
               "OutputPolygon",
               "OutputMeter",
               "OutputLinearBarGraph",
               "OutputArchedBarGraph",
               "GraphicsContext",
               "ObjectPointer" >>)
    \o When(version >= 5,
            << "ExternalObjectPointer" >>)
    \o When(version >= 6,
            << "ScaledGraphic" >>)

\* impl AllowedChildRefs for AuxiliaryFunctionType1
AuxiliaryFunctionType1_get_allowed_child_refs(version) ==
    << "OutputString",
       "OutputNumber",
       "OutputLine",
       "OutputRectangle",
       "OutputEllipse",
       "OutputPolygon",
       "PictureGraphic" >>

\* impl AllowedChildRefs for AuxiliaryInputType1: the rule of AuxiliaryFunctionType1
AuxiliaryInputType1_get_allowed_child_refs(version) ==
    AuxiliaryFunctionType1_get_allowed_child_refs(version)

\* impl AllowedChildRefs for AuxiliaryFunctionType2
AuxiliaryFunctionType2_get_allowed_child_refs(version) ==
    <<>>
    \o When(version >= 3,
            << "Container",
               "OutputString",
               "OutputNumber",
               "OutputLine",
               "OutputRectangle",
               "OutputEllipse",
               "OutputPolygon",
               "OutputMeter",
               "OutputLinearBarGraph",
               "OutputArchedBarGraph",
               "PictureGraphic",
               "ObjectPointer" >>)
    \o When(version >= 4,
            << "OutputList",
               "GraphicsContext" >>)
    \o When(version >= 6,
            << "ScaledGraphic" >>)

\* impl AllowedChildRefs for AuxiliaryInputType2: the rule of AuxiliaryFunctionType2
AuxiliaryInputType2_get_allowed_child_refs(version) ==
    AuxiliaryFunctionType2_get_allowed_child_refs(version)

\* impl AllowedChildRefs for WindowMask
WindowMask_get_allowed_child_refs(version) ==
    <<>>
    \o When(version >= 4,
            << "WorkingSet",
               "Container",
               "Button",
               "InputBoolean",
               "InputString",
               "InputNumber",
               "InputList",
               "OutputString",
               "OutputNumber",
               "OutputList",
               "OutputLine",
               "OutputRectangle",
               "OutputEllipse",
               "OutputPolygon",
               "OutputMeter",
               "OutputLinearBarGraph",
               "OutputArchedBarGraph",
               "GraphicsContext",
               "PictureGraphic",
               "ObjectPointer" >>)
    \o When(version >= 5,
            << "Animation",
               "ExternalObjectPointer" >>)
    \o When(version >= 6,
            << "ScaledGraphic" >>)

\* impl AllowedChildRefs for OutputList: the rule of WindowMask
OutputList_get_allowed_child_refs(version) ==
    WindowMask_get_allowed_child_refs(version)

\* impl AllowedChildRefs for KeyGroup
KeyGroup_get_allowed_child_refs(version) ==
    <<>>
    \o When(version >= 4,
            << "Key" >>)

\* impl AllowedChildRefs for Animation
Animation_get_allowed_child_refs(version) ==
    <<>>
    \o When(version >= 5,
            << "Container",
               "OutputString",
               "OutputNumber",
               "OutputList",
               "OutputLine",
               "OutputRectangle",
               "OutputEllipse",
               "OutputPolygon",
               "OutputMeter",
               "OutputLinearBarGraph",
               "OutputArchedBarGraph",
               "GraphicsContext",
               "PictureGraphic",
               "ObjectPointer" >>)
    \o When(version >= 6,
            << "ScaledGraphic" >>)

\* mutation: from version 4 on the list may hold object labels
ObjectLabelReferenceList_get_allowed_child_refs_Labels(version) ==
    <<>>
    \o When(version >= 4, << "ObjectLabel" >>)

\* impl AllowedChildRefs for ObjectLabelReferenceList
ObjectLabelReferenceList_get_allowed_child_refs(version) ==
    <<>>
    \o When(version >= 4, <<>>)

\* impl AllowedChildRefs for ObjectLabel
ObjectLabel_get_allowed_child_refs(version) ==
    <<>>
    \o When(version >= 4,
            << "Container",
               "OutputString",
               "OutputNumber",
               "OutputList",
               "OutputLine",
               "OutputRectangle",
               "OutputEllipse",
               "OutputPolygon",
               "OutputMeter",
               "OutputLinearBarGraph",
               "OutputArchedBarGraph",
               "GraphicsContext",
               "PictureGraphic",
               "ObjectPointer" >>)
    \o When(version >= 6,
            << "ScaledGraphic" >>)

\* get_allowed_child_refs: the rule of the object type, no children for the rest
get_allowed_child_refs(obj_type, version) ==
    CASE obj_type = "WorkingSet" -> WorkingSet_get_allowed_child_refs(version)
      [] obj_type = "DataMask" -> DataMask_get_allowed_child_refs(version)
      [] obj_type = "AlarmMask" -> AlarmMask_get_allowed_child_refs(version)
      [] obj_type = "Container" -> Container_get_allowed_child_refs(version)
      [] obj_type = "SoftKeyMask" -> SoftKeyMask_get_allowed_child_refs(version)
      [] obj_type = "Key" -> Key_get_allowed_child_refs(version)
      [] obj_type = "Button" -> Button_get_allowed_child_refs(version)
      [] obj_type = "InputList" -> InputList_get_allowed_child_refs(version)
      [] obj_type = "OutputList" -> OutputList_get_allowed_child_refs(version)
      [] obj_type = "AuxiliaryFunctionType1" -> AuxiliaryFunctionType1_get_allowed_child_refs(version)
      [] obj_type = "AuxiliaryInputType1" -> AuxiliaryInputType1_get_allowed_child_refs(version)
      [] obj_type = "AuxiliaryFunctionType2" -> AuxiliaryFunctionType2_get_allowed_child_refs(version)
      [] obj_type = "AuxiliaryInputType2" -> AuxiliaryInputType2_get_allowed_child_refs(version)
      [] obj_type = "WindowMask" -> WindowMask_get_allowed_child_refs(version)
      [] obj_type = "KeyGroup" -> KeyGroup_get_allowed_child_refs(version)
      [] obj_type = "Animation" -> Animation_get_allowed_child_refs(version)
      [] obj_type = "ObjectLabelReferenceList" -> ObjectLabelReferenceList_get_allowed_child_refs(version)
      [] OTHER -> <<>>

\* the rule of a type that implements AllowedChildRefs: the object types through
\* get_allowed_child_refs, ObjectLabel through its own implementation
AllowedChildRefs(t, version) ==
    IF t = "ObjectLabel" THEN ObjectLabel_get_allowed_child_refs(version)
    ELSE get_allowed_child_refs(t, version)

(***************************************************************************)
(* Naming engine: smart_naming and the apply_smart_naming_* methods        *)
(***************************************************************************)
\* an object with the properties contextual naming reads: key_code of a Key or
\* Button, height of a Container (0 for the types that have neither)
NamedObj(i, t, key_code, height) ==
    [id |-> i, type |-> t, key_code |-> key_code, height |-> height]

\* smart_naming::get_object_type_name
get_object_type_name(object_type) ==
    CASE object_type = "WorkingSet" -> "Working Set"
      [] object_type = "DataMask" -> "Data Mask"
      [] object_type = "AlarmMask" -> "Alarm Screen"
      [] object_type = "Container" -> "Container"
      [] object_type = "SoftKeyMask" -> "Soft Key Mask"
      [] object_type = "Key" -> "Key"
      [] object_type = "Button" -> "Button"
      [] object_type = "InputBoolean" -> "Checkbox"
      [] object_type = "InputString" -> "Text Input"
      [] object_type = "InputNumber" -> "Number Input"
      [] object_type = "InputList" -> "List Input"
      [] object_type = "OutputString" -> "Text Display"
      [] object_type = "OutputNumber" -> "Number Display"
      [] object_type = "OutputList" -> "List Display"
      [] object_type = "OutputLine" -> "Line"
      [] object_type = "OutputRectangle" -> "Rectangle"
      [] object_type = "OutputEllipse" -> "Ellipse"
      [] object_type = "OutputPolygon" -> "Polygon"
      [] object_type = "OutputMeter" -> "Meter"
      [] object_type = "OutputLinearBarGraph" -> "Linear Bar"
      [] object_type = "OutputArchedBarGraph" -> "Arched Bar"
      [] object_type = "PictureGraphic" -> "Picture"
      [] object_type = "NumberVariable" -> "Number Variable"
      [] object_type = "StringVariable" -> "String Variable"
      [] object_type = "FontAttributes" -> "Font Style"
      [] object_type = "LineAttributes" -> "Line Style"
      [] object_type = "FillAttributes" -> "Fill Style"
      [] object_type = "InputAttributes" -> "Input Style"
      [] object_type = "ObjectPointer" -> "Object Reference"
      [] object_type = "Macro" -> "Macro"
      [] object_type = "AuxiliaryFunctionType1" -> "Aux Function v1"
      [] object_type = "AuxiliaryInputType1" -> "Aux Input v1"
      [] object_type = "AuxiliaryFunctionType2" -> "Aux Function v2"
      [] object_type = "AuxiliaryInputType2" -> "Aux Input v2"
      [] object_type = "AuxiliaryControlDesignatorType2" -> "Aux Control v2"
      [] object_type = "ColourMap" -> "Colour Map"
      [] object_type = "GraphicsContext" -> "Graphics Context"
      [] object_type = "ColourPalette" -> "Colour Palette"
      [] object_type = "GraphicData" -> "Graphic Data"
      [] object_type = "WorkingSetSpecialControls" -> "Special Controls"
      [] object_type = "ScaledGraphic" -> "Scaled Graphic"
      [] object_type = "WindowMask" -> "Window Mask"
      [] object_type = "KeyGroup" -> "Key Group"
      [] object_type = "ExtendedInputAttributes" -> "Extended Input Style"
      [] object_type = "ObjectLabelReferenceList" -> "Label Reference List"
      [] object_type = "ExternalObjectDefinition" -> "External Object Definition"
      [] object_type = "ExternalReferenceName" -> "External Reference Name"
      [] object_type = "ExternalObjectPointer" -> "External Object Pointer"
      [] object_type = "Animation" -> "Animation"

\* str::contains("Screen") on a base name of generate_smart_default_name, which is
\* "Main Screen", "Data Screen" or a name of get_object_type_name
ContainsScreen(base_name) ==
    base_name \in {"Main Screen", "Data Screen", "Alarm Screen"}

\* HashMap<String, usize>: existing_names.get(name).copied().unwrap_or(0) and
\* *existing_names.entry(name).or_insert(0) += 1
NamesCount(names, name) == IF name \in DOMAIN names THEN names[name] ELSE 0

\* mutation of NamesAdd: the name is not counted
NamesAdd_NotCounted(names, name) == names

NamesAdd(names, name) ==
    [n \in DOMAIN names \cup {name} |-> NamesCount(names, n) + (IF n = name THEN 1 ELSE 0)]

\* the `loop` of generate_smart_default_name: the first "{base_name} {counter}"
\* from counter on that existing_names does not count
RECURSIVE NumberedName(_, _, _)
NumberedName(base_name, counter, existing_names) ==
    LET candidate == base_name \o " " \o ToString(counter)
    IN  IF NamesCount(existing_names, candidate) = 0 THEN candidate
        ELSE NumberedName(base_name, counter + 1, existing_names)

\* smart_naming::generate_smart_default_name
generate_smart_default_name(object_type, pool, existing_names) ==
    LET same_type_count == Cardinality({i \in DOMAIN pool : pool[i].type = object_type})
        base_name == IF object_type = "DataMask"
                     THEN IF same_type_count = 0 THEN "Main Screen" ELSE "Data Screen"
                     ELSE get_object_type_name(object_type)
    IN  IF same_type_count = 0 /\ ~ContainsScreen(base_name) THEN base_name
        ELSE IF NamesCount(existing_names, base_name) = 0 /\ same_type_count = 0
        THEN base_name
        ELSE NumberedName(base_name, same_type_count + 1, existing_names)

\* mutation of generate_contextual_name: a soft key is numbered by its key code
generate_contextual_name_ByKeyCode(object) ==
    CASE object.type = "Key" ->
             IF object.key_code = 0 THEN <<"ACK/Enter Key">>
             ELSE IF object.key_code = 1 THEN <<"ESC Key">>
             ELSE IF object.key_code >= 2 /\ object.key_code <= 7
             THEN <<"Soft Key " \o ToString(object.key_code)>>
             ELSE <<>>
      [] object.type = "Button" ->
             IF object.key_code = 0 THEN <<"OK Button">>
             ELSE IF object.key_code = 1 THEN <<"Cancel Button">>
             ELSE <<>>
      [] object.type = "Container" ->
             IF object.height < 100 THEN <<"Header Container">>
             ELSE IF object.height > 300 THEN <<"Main Container">>
             ELSE <<>>
      [] OTHER -> <<>>

\* smart_naming::generate_contextual_name: Option<String> as a sequence of at
\* most one string
generate_contextual_name(object) ==
    CASE object.type = "Key" ->
             IF object.key_code = 0 THEN <<"ACK/Enter Key">>
             ELSE IF object.key_code = 1 THEN <<"ESC Key">>
             ELSE IF object.key_code >= 2 /\ object.key_code <= 7
             THEN <<"Soft Key " \o ToString(object.key_code - 1)>>
             ELSE <<>>
      [] object.type = "Button" ->
             IF object.key_code = 0 THEN <<"OK Button">>
             ELSE IF object.key_code = 1 THEN <<"Cancel Button">>
             ELSE <<>>
      [] object.type = "Container" ->
             IF object.height < 100 THEN <<"Header Container">>
             ELSE IF object.height > 300 THEN <<"Main Container">>
             ELSE <<>>
      [] OTHER -> <<>>

\* ObjectInfo::get_name: the name, or the default "{object_id}: {object_type}"
get_name(i, object) ==
    IF i.name # <<>> THEN i.name[1]
    ELSE ToString(object.id) \o ": " \o object.type

\* the entry of default_object_names for an object without ObjectInfo
DefaultObjectName(obj) ==
    "Object " \o ToString(obj.id) \o " (" \o get_object_type_name(obj.type) \o ")"

\* default_names_cache.entry(obj.id()).or_insert_with(|| format!(..)): the cache
\* afterwards; an id the cache holds keeps its name whatever the object is
DefaultNamesEntry(cache, obj) ==
    IF obj.id \in DOMAIN cache THEN cache
    ELSE [i \in DOMAIN cache \cup {obj.id} |->
             IF i = obj.id THEN DefaultObjectName(obj) ELSE cache[i]]

\* the existing-names map built from the committed pool, objects i.. on: the
\* displayed name of an object with ObjectInfo, the name default_object_names
\* caches under the id of one without; apply_smart_naming_to_object skips the
\* object being named (skip_id) when it has no ObjectInfo,
\* apply_smart_naming_to_objects skips none (NULL_ID).  The project afterwards
\* (its cache filled) and the map.
RECURSIVE ExistingNames(_, _, _, _)
ExistingNames(p, skip_id, i, names) ==
    IF i > Len(p.pool) THEN [project |-> p, names |-> names]
    ELSE LET obj == p.pool[i]
             cache == DefaultNamesEntry(p.default_object_names, obj)
         IN  IF obj.id \in DOMAIN p.object_info
             THEN ExistingNames(p, skip_id, i + 1,
                                NamesAdd(names, get_name(p.object_info[obj.id], obj)))
             ELSE IF obj.id = skip_id
             THEN ExistingNames(p, skip_id, i + 1, names)
             ELSE ExistingNames([p EXCEPT !.default_object_names = cache],
                                skip_id, i + 1, NamesAdd(names, cache[obj.id]))

\* the loop of EditorProject::get_all_object_names over the objects i.. on of
\* the committed pool: the project afterwards (its cache filled) and the map
RECURSIVE AllObjectNames(_, _, _)
AllObjectNames(p, i, names) ==
    IF i > Len(p.pool) THEN [project |-> p, names |-> names]
    ELSE LET object == p.pool[i]
             cache == DefaultNamesEntry(p.default_object_names, object)
         IN  IF object.id \in DOMAIN p.object_info
             THEN AllObjectNames(p, i + 1,
                                 NamesAdd(names, get_name(p.object_info[object.id], object)))
             ELSE AllObjectNames([p EXCEPT !.default_object_names = cache],
                                 i + 1, NamesAdd(names, cache[object.id]))

\* EditorProject::get_all_object_names: the project afterwards and the map from
\* displayed name to number of objects
get_all_object_names(p) == AllObjectNames(p, 1, <<>>)

\* EditorProject::generate_smart_name_for_new_object: the project afterwards and
\* the name
generate_smart_name_for_new_object(p, object_type) ==
    LET existing_names == get_all_object_names(p)
    IN  [ project |-> existing_names.project,
          name |-> generate_smart_default_name(object_type, p.pool,
                                               existing_names.names) ]

\* object_info.entry(id).or_insert_with(ObjectInfo::new) followed by set_name
InfoSetName(p, id, name) ==
    [InfoEntry(p, id) EXCEPT !.object_info[id] = set_name(@, name)]

\* first pass of apply_smart_naming_to_objects over objects i.. on: named objects
\* are skipped, contextual names stored, the rest collected
RECURSIVE ContextualPass(_, _, _, _)
ContextualPass(p, objects_needing_names, objects, i) ==
    IF i > Len(objects)
    THEN [project |-> p, objects_needing_names |-> objects_needing_names]
    ELSE LET object == objects[i]
             contextual_name == generate_contextual_name(object)
         IN  IF /\ object.id \in DOMAIN p.object_info
                /\ p.object_info[object.id].name # <<>>
             THEN ContextualPass(p, objects_needing_names, objects, i + 1)
             ELSE IF contextual_name # <<>>
             THEN ContextualPass(InfoSetName(p, object.id, contextual_name[1]),
                                 objects_needing_names, objects, i + 1)
             ELSE ContextualPass(p, Append(objects_needing_names, object),
                                 objects, i + 1)

\* last loop of apply_smart_naming_to_objects over objects_needing_names i.. on
RECURSIVE DefaultNamePass(_, _, _, _)
DefaultNamePass(p, existing_names, objects_needing_names, i) ==
    IF i > Len(objects_needing_names) THEN p
    ELSE LET object == objects_needing_names[i]
             new_name == generate_smart_default_name(object.type, p.pool, existing_names)
         IN  DefaultNamePass(InfoSetName(p, object.id, new_name),
                             NamesAdd(existing_names, new_name),
                             objects_needing_names, i + 1)

\* EditorProject::apply_smart_naming_to_objects
apply_smart_naming_to_objects(p, objects) ==
    IF objects = <<>> THEN p
    ELSE LET first == ContextualPass(p, <<>>, objects, 1)
         IN  IF first.objects_needing_names = <<>>
             THEN first.project
             ELSE LET existing_names == ExistingNames(first.project, NULL_ID, 1, <<>>)
                  IN  DefaultNamePass(existing_names.project, existing_names.names,
                                      first.objects_needing_names, 1)

\* EditorProject::apply_smart_naming_to_object
apply_smart_naming_to_object(p, object) ==
    LET info == p.object_info
        contextual_name == generate_contextual_name(object)
    IN  IF object.id \in DOMAIN info /\ info[object.id].name # <<>> THEN p
        ELSE IF contextual_name # <<>>
        THEN InfoSetName(p, object.id, contextual_name[1])
        ELSE LET existing_names == ExistingNames(p, object.id, 1, <<>>)
                 new_name == generate_smart_default_name(object.type, p.pool,
                                                         existing_names.names)
             IN  InfoSetName(existing_names.project, object.id, new_name)

\* load_project, "Restore object metadata", objects i.. on: an object whose id
\* the file's metadata lists gets an ObjectInfo, and the name if one is stored
RECURSIVE RestoreMetadata(_, _, _)
RestoreMetadata(p, metadata, i) ==
    IF i > Len(p.pool) THEN p
    ELSE LET id == p.pool[i].id
         IN  IF id \in DOMAIN metadata
             THEN RestoreMetadata(
                      IF metadata[id] # <<>>
                      THEN InfoSetName(p, id, metadata[id][1])
                      ELSE InfoEntry(p, id),
                      metadata, i + 1)
             ELSE RestoreMetadata(p, metadata, i + 1)

\* load_project, "Apply smart naming to objects without custom names", objects i.. on
RECURSIVE NameEachObject(_, _)
NameEachObject(p, i) ==
    IF i > Len(p.pool) THEN p
    ELSE NameEachObject(apply_smart_naming_to_object(p, p.pool[i]), i + 1)

\* mutation of load_project: the metadata of the file is not restored
load_project_NoRestore(pool, metadata, mask_size, last_selected) ==
    LET sized == [FromPool(pool) EXCEPT !.mask_size = mask_size]
        named == NameEachObject(sized, 1)
    IN  IF last_selected # NULL_ID
        THEN [named EXCEPT !.selected_object = last_selected,
                           !.mut_selected_object = last_selected]
        ELSE named

\* EditorProject::load_project for a project file holding the pool, the metadata
\* (object id -> stored name, if any), the mask size and last_selected (NULL_ID
\* for None)
load_project(pool, metadata, mask_size, last_selected) ==
    LET sized == [FromPool(pool) EXCEPT !.mask_size = mask_size]
        named == NameEachObject(RestoreMetadata(sized, metadata, 1), 1)
    IN  IF last_selected # NULL_ID
        THEN [named EXCEPT !.selected_object = last_selected,
                           !.mut_selected_object = last_selected]
        ELSE named

\* the elements of a sequence
Range(s) == { s[i] : i \in DOMAIN s }

(***************************************************************************)
(* The object graph: references between objects and the code that follows  *)
(* them (hierarchy view, mask renderer, hit-testing, parameters panel)     *)
(***************************************************************************)
\* Objects that hold references.  An ObjectRef is modelled by the id it names
\* (its pixel offset only places the child); NULL_ID is NullableObjectId(None).
WorkingSetObj(i, active_mask, object_refs) ==
    [ id |-> i, type |-> "WorkingSet", selectable |-> TRUE,
      active_mask |-> active_mask, object_refs |-> object_refs ]

DataMaskObj(i, object_refs) ==
    [id |-> i, type |-> "DataMask", object_refs |-> object_refs]

ContainerObj(i, hidden, object_refs) ==
    [id |-> i, type |-> "Container", hidden |-> hidden, object_refs |-> object_refs]

ObjectPointerObj(i, value) == [id |-> i, type |-> "ObjectPointer", value |-> value]

\* ObjectPool::object_by_id where the id is in the pool
object_by_id(pool, id) == pool[FirstIndexOf(pool, id)]

\* mutation of working_set_object: the first object of the pool, whatever its type
working_set_object_AnyType(pool) ==
    IF pool = <<>> THEN <<>> ELSE <<pool[1]>>

\* ObjectPool::working_set_object as an Option: the WorkingSet of the pool, if any
working_set_object(pool) ==
    LET ws == SelectSeq(pool, LAMBDA o : o.type = "WorkingSet")
    IN  IF ws = <<>> THEN <<>> ELSE <<ws[1]>>

\* A field of an object.  A record of the model that leaves a field out holds
\* the value Default::default() gives the field: the id 0 for an ObjectId, None
\* for a NullableObjectId, an empty Vec, false, 0, the first variant of an enum.
Field(object, name, default) ==
    IF name \in DOMAIN object THEN object[name] ELSE default

IdField(object, name) == Field(object, name, 0)
NullableIdField(object, name) == Field(object, name, NULL_ID)
ObjectRefs(object) == Field(object, "object_refs", <<>>)

\* pool.object_by_id(id) matches Some(Object::<type>(_))
IsObjectOfType(pool, id, type) ==
    HasObject(pool, id) /\ object_by_id(pool, id).type = type

\* Object::referenced_objects: the ids the object refers to
referenced_objects(object) ==
    CASE object.type = "WorkingSet" ->
            <<IdField(object, "active_mask")>> \o ObjectRefs(object)
      [] object.type \in {"DataMask", "AlarmMask", "Container", "Key", "Button"} ->
            ObjectRefs(object)
      [] object.type = "ObjectPointer" ->
            IF NullableIdField(object, "value") = NULL_ID THEN <<>>
            ELSE <<object.value>>
      [] OTHER -> <<>>

\* What a traversal leaves: the red and plain labels it showed, or the overflow
\* of the call stack.  None of the traversals below bounds its depth or remembers
\* the objects it is in: a call for an object whose own call is still in progress
\* (`stack`) repeats that call's steps without end.  render is handed the object
\* itself and looks up only its references in the pool, so the staged object of
\* the parameters panel is another object than the committed one of the same id.
Shown(labels) == [overflow |-> FALSE, labels |-> labels]
Overflow == [overflow |-> TRUE, labels |-> <<>>]

MissingObject == "Missing object"
MissingFontAttributes == "Missing font attributes"
MissingLineAttributes == "Missing line attributes"
MissingFillAttributes == "Missing fill attributes"
MissingOrInvalidLineAttributes == "Missing or invalid LineAttributes ID"
HorizontalReserved == "Configuration incorrect: horizontal alignment is set to Reserved"
VerticalReserved == "Configuration incorrect: vertical alignment is set to Reserved"
InvalidHorizontal == "Invalid horizontal alignment for InputNumber"
InvalidVertical == "Invalid vertical alignment for InputNumber"
MissingFontAttributesFor(type) == "Missing FontAttributes for " \o type \o " ID"
NotImplemented(type) == type \o " not implemented"

\* the types whose render shows "<type> not implemented" and nothing else
NotImplementedTypes ==
    { "InputString", "InputList", "OutputList", "OutputEllipse", "OutputPolygon",
      "OutputMeter", "OutputLinearBarGraph", "OutputArchedBarGraph",
      "AuxiliaryFunctionType2", "AuxiliaryInputType2",
      "AuxiliaryControlDesignatorType2" }

\* InputNumber::render and OutputNumber::render, the number displayed: the value
\* of the NumberVariable variable_reference names, else the object's own, plus
\* the offset, times the scale.  The scales of the model are whole numbers, which
\* rounding or truncating to nr_of_decimals leaves as they are.
DisplayedValue(object, pool) ==
    LET var_id == NullableIdField(object, "variable_reference")
        raw_value == IF var_id # NULL_ID /\ IsObjectOfType(pool, var_id, "NumberVariable")
                     THEN Field(object_by_id(pool, var_id), "value", 0)
                     ELSE Field(object, "value", 0)
    IN  (raw_value + Field(object, "offset", 0)) * Field(object, "scale", 0)

\* InputNumber::render and OutputNumber::render: the label shown, if any
NumberLabels(object, pool) ==
    IF ~IsObjectOfType(pool, IdField(object, "font_attributes"), "FontAttributes")
    THEN <<MissingFontAttributesFor(object.type)>>
    ELSE IF Field(object, "display_zero_as_blank", FALSE) /\ DisplayedValue(object, pool) = 0
    THEN <<>>
    ELSE IF Field(object, "horizontal", "Left") = "Reserved"
    THEN <<IF object.type = "InputNumber" THEN InvalidHorizontal ELSE HorizontalReserved>>
    ELSE IF Field(object, "vertical", "Top") = "Reserved"
    THEN <<IF object.type = "InputNumber" THEN InvalidVertical ELSE VerticalReserved>>
    ELSE <<>>

\* OutputString::render: the label shown, if any
OutputStringLabels(object, pool) ==
    IF ~IsObjectOfType(pool, IdField(object, "font_attributes"), "FontAttributes")
    THEN <<MissingFontAttributes>>
    ELSE IF Field(object, "horizontal", "Left") = "Reserved" THEN <<HorizontalReserved>>
    ELSE IF Field(object, "vertical", "Top") = "Reserved" THEN <<VerticalReserved>>
    ELSE <<>>

\* OutputLine::render: the label shown, if any (a line of width 0 draws nothing)
OutputLineLabels(object, pool) ==
    IF ~IsObjectOfType(pool, IdField(object, "line_attributes"), "LineAttributes")
    THEN <<MissingOrInvalidLineAttributes>>
    ELSE <<>>

\* OutputRectangle::render: the label shown, if any
OutputRectangleLabels(object, pool) ==
    LET fill == NullableIdField(object, "fill_attributes")
    IN  IF ~IsObjectOfType(pool, IdField(object, "line_attributes"), "LineAttributes")
        THEN <<MissingLineAttributes>>
        ELSE IF fill # NULL_ID /\ ~IsObjectOfType(pool, fill, "FillAttributes")
        THEN <<MissingFillAttributes>>
        ELSE <<>>

\* <impl RenderableObject for Object>::render and render_object_refs.  The types
\* the dispatch gives no render, and InputBoolean and PictureGraphic, show no
\* label.
RECURSIVE render(_, _, _)
RECURSIVE render_object_refs(_, _, _)
render(object, pool, stack) ==
    IF object \in stack THEN Overflow
    ELSE LET deeper == stack \cup {object}
         IN  CASE object.type = "WorkingSet" ->
                    IF ~Field(object, "selectable", FALSE) THEN Shown(<<>>)
                    ELSE render_object_refs(pool, ObjectRefs(object), deeper)
               [] object.type \in {"DataMask", "AlarmMask", "Button", "Key"} ->
                    render_object_refs(pool, ObjectRefs(object), deeper)
               [] object.type = "Container" ->
                    IF Field(object, "hidden", FALSE) THEN Shown(<<>>)
                    ELSE render_object_refs(pool, ObjectRefs(object), deeper)
               [] object.type = "ObjectPointer" ->
                    IF NullableIdField(object, "value") = NULL_ID THEN Shown(<<>>)
                    ELSE IF HasObject(pool, object.value)
                    THEN render(object_by_id(pool, object.value), pool, deeper)
                    ELSE Shown(<<MissingObject>>)
               [] object.type \in NotImplementedTypes ->
                    Shown(<<NotImplemented(object.type)>>)
               [] object.type \in {"InputNumber", "OutputNumber"} ->
                    Shown(NumberLabels(object, pool))
               [] object.type = "OutputString" -> Shown(OutputStringLabels(object, pool))
               [] object.type = "OutputLine" -> Shown(OutputLineLabels(object, pool))
               [] object.type = "OutputRectangle" ->
                    Shown(OutputRectangleLabels(object, pool))
               [] OTHER -> Shown(<<>>)

render_object_refs(pool, object_refs, stack) ==
    IF object_refs = <<>> THEN Shown(<<>>)
    ELSE LET first == IF HasObject(pool, Head(object_refs))
                      THEN render(object_by_id(pool, Head(object_refs)), pool, stack)
                      ELSE Shown(<<MissingObject>>)
         IN  IF first.overflow THEN Overflow
             ELSE LET rest == render_object_refs(pool, Tail(object_refs), stack)
                  IN  IF rest.overflow THEN Overflow
                      ELSE Shown(first.labels \o rest.labels)

\* update_object_hierarchy_headers and its `for obj_id in refs` loop: whether
\* the object is the new selection or has it below
RECURSIVE update_object_hierarchy_headers(_, _, _, _)
RECURSIVE UpdateHeadersOfRefs(_, _, _, _)
update_object_hierarchy_headers(object, pool, new_selected, stack) ==
    IF object.id \in stack THEN [overflow |-> TRUE, is_selected_or_descendant |-> FALSE]
    ELSE LET below == UpdateHeadersOfRefs(referenced_objects(object), pool,
                                          new_selected, stack \cup {object.id})
         IN  IF below.overflow THEN below
             ELSE [ overflow |-> FALSE,
                    is_selected_or_descendant |->
                        new_selected = object.id \/ below.is_selected_or_descendant ]

UpdateHeadersOfRefs(refs, pool, new_selected, stack) ==
    IF refs = <<>> THEN [overflow |-> FALSE, is_selected_or_descendant |-> FALSE]
    ELSE LET first == IF HasObject(pool, Head(refs))
                      THEN update_object_hierarchy_headers(
                               object_by_id(pool, Head(refs)), pool, new_selected, stack)
                      ELSE [overflow |-> FALSE, is_selected_or_descendant |-> FALSE]
         IN  IF first.overflow THEN first
             ELSE LET rest == UpdateHeadersOfRefs(Tail(refs), pool, new_selected, stack)
                  IN  IF rest.overflow THEN rest
                      ELSE [ overflow |-> FALSE,
                             is_selected_or_descendant |->
                                 \/ first.is_selected_or_descendant
                                 \/ rest.is_selected_or_descendant ]

\* InteractiveMaskRenderer::find_object_recursive and its loop over the children
\* in reverse, the i-th first.  `hit` holds the objects whose rectangle contains
\* the pointer; found is the id of the object under the pointer, or NULL_ID.
RECURSIVE find_object_recursive(_, _, _, _)
RECURSIVE FindInChildren(_, _, _, _, _)
find_object_recursive(object, pool, hit, stack) ==
    IF object.id \in stack THEN [overflow |-> TRUE, found |-> NULL_ID]
    ELSE LET child == IF object.type \in {"DataMask", "AlarmMask", "Container"}
                      THEN FindInChildren(ObjectRefs(object), Len(ObjectRefs(object)),
                                          pool, hit, stack \cup {object.id})
                      ELSE [overflow |-> FALSE, found |-> NULL_ID]
         IN  IF child.overflow \/ child.found # NULL_ID THEN child
             ELSE [ overflow |-> FALSE,
                    found |-> IF object.id \in hit THEN object.id ELSE NULL_ID ]

FindInChildren(object_refs, i, pool, hit, stack) ==
    IF i = 0 THEN [overflow |-> FALSE, found |-> NULL_ID]
    ELSE LET first == IF HasObject(pool, object_refs[i])
                      THEN find_object_recursive(object_by_id(pool, object_refs[i]),
                                                 pool, hit, stack)
                      ELSE [overflow |-> FALSE, found |-> NULL_ID]
         IN  IF first.overflow \/ first.found # NULL_ID THEN first
             ELSE FindInChildren(object_refs, i - 1, pool, hit, stack)

\* render_object_hierarchy and the loop of its body.  The collapsing headers are
\* closed until the user opens them: open_depth is the number of levels of
\* headers that are open.  Every row is a render_selectable_object, which looks
\* the object's info up and shows its name.
RECURSIVE render_object_hierarchy(_, _, _)
RECURSIVE HierarchyBody(_, _, _)
render_object_hierarchy(p, object, open_depth) ==
    LET g == get_object_info(p, object)
        row == <<get_name(g.info, object)>>
        refs == referenced_objects(object)
    IN  IF refs = <<>> \/ open_depth = 0
        THEN [project |-> g.project, labels |-> row]
        ELSE LET body == HierarchyBody(g.project, refs, open_depth - 1)
             IN  [project |-> body.project, labels |-> row \o body.labels]

HierarchyBody(p, refs, open_depth) ==
    IF refs = <<>> THEN [project |-> p, labels |-> <<>>]
    ELSE LET first == IF HasObject(p.pool, Head(refs))
                      THEN render_object_hierarchy(p, object_by_id(p.pool, Head(refs)),
                                                   open_depth)
                      ELSE [project |-> p, labels |-> <<MissingObject>>]
             rest == HierarchyBody(first.project, Tail(refs), open_depth)
         IN  [project |-> rest.project, labels |-> first.labels \o rest.labels]

NoWorkingSet == "No working set, please add a new working set..."

\* ObjectType in the order of u8::from(ObjectType), the object type numbers of
\* ISO 11783-6 from 0 on: the k-th type has the number k - 1
ObjectTypesByNumber ==
    <<
      "WorkingSet", "DataMask", "AlarmMask", "Container", "SoftKeyMask", "Key",
      "Button", "InputBoolean", "InputString", "InputNumber", "InputList",
      "OutputString", "OutputNumber", "OutputLine", "OutputRectangle",
      "OutputEllipse", "OutputPolygon", "OutputMeter", "OutputLinearBarGraph",
      "OutputArchedBarGraph", "PictureGraphic", "NumberVariable", "StringVariable",
      "FontAttributes", "LineAttributes", "FillAttributes", "InputAttributes",
      "ObjectPointer", "Macro", "AuxiliaryFunctionType1", "AuxiliaryInputType1",
      "AuxiliaryFunctionType2", "AuxiliaryInputType2",
      "AuxiliaryControlDesignatorType2", "WindowMask", "KeyGroup",
      "GraphicsContext", "OutputList", "ExtendedInputAttributes", "ColourMap",
      "ObjectLabelReferenceList", "ExternalObjectDefinition",
      "ExternalReferenceName", "ExternalObjectPointer", "Animation",
      "ColourPalette", "GraphicData", "WorkingSetSpecialControls", "ScaledGraphic" >>

\* the place of an element in a sequence without repetitions
IndexIn(s, e) == CHOOSE k \in DOMAIN s : s[k] = e

\* the decimal digits `{}` prints for an id
RECURSIVE Digits(_)
Digits(n) == IF n < 10 THEN <<n>> ELSE Digits(n \div 10) \o <<n % 10>>

\* The bytes of the strings the model uses as names: the names `{:?}` prints
\* for ObjectType, the names of get_object_type_name and of the smart naming,
\* the names typed in the model.  str::cmp compares these bytes.
Utf8 ==
    LET bytes ==
          {
            <<"", <<>>>>,
            <<"ACK/Enter Key", <<65, 67, 75, 47, 69, 110, 116, 101, 114, 32, 75, 101, 121>>>>,
            <<"Alarm Screen", <<65, 108, 97, 114, 109, 32, 83, 99, 114, 101, 101, 110>>>>,
            <<"AlarmMask", <<65, 108, 97, 114, 109, 77, 97, 115, 107>>>>,
            <<"Animation", <<65, 110, 105, 109, 97, 116, 105, 111, 110>>>>,
            <<"Arched Bar", <<65, 114, 99, 104, 101, 100, 32, 66, 97, 114>>>>,
            <<"Aux Control v2", <<65, 117, 120, 32, 67, 111, 110, 116, 114, 111, 108, 32, 118, 50>>>>,
            <<"Aux Function v1", <<65, 117, 120, 32, 70, 117, 110, 99, 116, 105, 111, 110, 32, 118, 49>>>>,
            <<"Aux Function v2", <<65, 117, 120, 32, 70, 117, 110, 99, 116, 105, 111, 110, 32, 118, 50>>>>,
            <<"Aux Input v1", <<65, 117, 120, 32, 73, 110, 112, 117, 116, 32, 118, 49>>>>,
            <<"Aux Input v2", <<65, 117, 120, 32, 73, 110, 112, 117, 116, 32, 118, 50>>>>,
            <<"AuxiliaryControlDesignatorType2", <<65, 117, 120, 105, 108, 105, 97, 114, 121, 67, 111, 110, 116, 114, 111, 108, 68, 101, 115, 105, 103, 110, 97, 116, 111, 114, 84, 121, 112, 101, 50>>>>,
            <<"AuxiliaryFunctionType1", <<65, 117, 120, 105, 108, 105, 97, 114, 121, 70, 117, 110, 99, 116, 105, 111, 110, 84, 121, 112, 101, 49>>>>,
            <<"AuxiliaryFunctionType2", <<65, 117, 120, 105, 108, 105, 97, 114, 121, 70, 117, 110, 99, 116, 105, 111, 110, 84, 121, 112, 101, 50>>>>,
            <<"AuxiliaryInputType1", <<65, 117, 120, 105, 108, 105, 97, 114, 121, 73, 110, 112, 117, 116, 84, 121, 112, 101, 49>>>>,
            <<"AuxiliaryInputType2", <<65, 117, 120, 105, 108, 105, 97, 114, 121, 73, 110, 112, 117, 116, 84, 121, 112, 101, 50>>>>,
            <<"Button", <<66, 117, 116, 116, 111, 110>>>>,
            <<"Cancel Button", <<67, 97, 110, 99, 101, 108, 32, 66, 117, 116, 116, 111, 110>>>>,
            <<"Checkbox", <<67, 104, 101, 99, 107, 98, 111, 120>>>>,
            <<"Colour Map", <<67, 111, 108, 111, 117, 114, 32, 77, 97, 112>>>>,
            <<"Colour Palette", <<67, 111, 108, 111, 117, 114, 32, 80, 97, 108, 101, 116, 116, 101>>>>,
            <<"ColourMap", <<67, 111, 108, 111, 117, 114, 77, 97, 112>>>>,
            <<"ColourPalette", <<67, 111, 108, 111, 117, 114, 80, 97, 108, 101, 116, 116, 101>>>>,
            <<"Container", <<67, 111, 110, 116, 97, 105, 110, 101, 114>>>>,
            <<"Custom", <<67, 117, 115, 116, 111, 109>>>>,
            <<"Data Mask", <<68, 97, 116, 97, 32, 77, 97, 115, 107>>>>,
            <<"Data Screen", <<68, 97, 116, 97, 32, 83, 99, 114, 101, 101, 110>>>>,
            <<"DataMask", <<68, 97, 116, 97, 77, 97, 115, 107>>>>,
            <<"ESC Key", <<69, 83, 67, 32, 75, 101, 121>>>>,
            <<"Ellipse", <<69, 108, 108, 105, 112, 115, 101>>>>,
            <<"Extended Input Style", <<69, 120, 116, 101, 110, 100, 101, 100, 32, 73, 110, 112, 117, 116, 32, 83, 116, 121, 108, 101>>>>,
            <<"ExtendedInputAttributes", <<69, 120, 116, 101, 110, 100, 101, 100, 73, 110, 112, 117, 116, 65, 116, 116, 114, 105, 98, 117, 116, 101, 115>>>>,
            <<"External Object Definition", <<69, 120, 116, 101, 114, 110, 97, 108, 32, 79, 98, 106, 101, 99, 116, 32, 68, 101, 102, 105, 110, 105, 116, 105, 111, 110>>>>,
            <<"External Object Pointer", <<69, 120, 116, 101, 114, 110, 97, 108, 32, 79, 98, 106, 101, 99, 116, 32, 80, 111, 105, 110, 116, 101, 114>>>>,
            <<"External Reference Name", <<69, 120, 116, 101, 114, 110, 97, 108, 32, 82, 101, 102, 101, 114, 101, 110, 99, 101, 32, 78, 97, 109, 101>>>>,
            <<"ExternalObjectDefinition", <<69, 120, 116, 101, 114, 110, 97, 108, 79, 98, 106, 101, 99, 116, 68, 101, 102, 105, 110, 105, 116, 105, 111, 110>>>>,
            <<"ExternalObjectPointer", <<69, 120, 116, 101, 114, 110, 97, 108, 79, 98, 106, 101, 99, 116, 80, 111, 105, 110, 116, 101, 114>>>>,
            <<"ExternalReferenceName", <<69, 120, 116, 101, 114, 110, 97, 108, 82, 101, 102, 101, 114, 101, 110, 99, 101, 78, 97, 109, 101>>>>,
            <<"Fill Style", <<70, 105, 108, 108, 32, 83, 116, 121, 108, 101>>>>,
            <<"FillAttributes", <<70, 105, 108, 108, 65, 116, 116, 114, 105, 98, 117, 116, 101, 115>>>>,
            <<"Font Style", <<70, 111, 110, 116, 32, 83, 116, 121, 108, 101>>>>,
            <<"FontAttributes", <<70, 111, 110, 116, 65, 116, 116, 114, 105, 98, 117, 116, 101, 115>>>>,
            <<"Graphic Data", <<71, 114, 97, 112, 104, 105, 99, 32, 68, 97, 116, 97>>>>,
            <<"GraphicData", <<71, 114, 97, 112, 104, 105, 99, 68, 97, 116, 97>>>>,
            <<"Graphics Context", <<71, 114, 97, 112, 104, 105, 99, 115, 32, 67, 111, 110, 116, 101, 120, 116>>>>,
            <<"GraphicsContext", <<71, 114, 97, 112, 104, 105, 99, 115, 67, 111, 110, 116, 101, 120, 116>>>>,
            <<"Header Container", <<72, 101, 97, 100, 101, 114, 32, 67, 111, 110, 116, 97, 105, 110, 101, 114>>>>,
            <<"Input Style", <<73, 110, 112, 117, 116, 32, 83, 116, 121, 108, 101>>>>,
            <<"InputAttributes", <<73, 110, 112, 117, 116, 65, 116, 116, 114, 105, 98, 117, 116, 101, 115>>>>,
            <<"InputBoolean", <<73, 110, 112, 117, 116, 66, 111, 111, 108, 101, 97, 110>>>>,
            <<"InputList", <<73, 110, 112, 117, 116, 76, 105, 115, 116>>>>,
            <<"InputNumber", <<73, 110, 112, 117, 116, 78, 117, 109, 98, 101, 114>>>>,
            <<"InputString", <<73, 110, 112, 117, 116, 83, 116, 114, 105, 110, 103>>>>,
            <<"Key", <<75, 101, 121>>>>,
            <<"Key Group", <<75, 101, 121, 32, 71, 114, 111, 117, 112>>>>,
            <<"KeyGroup", <<75, 101, 121, 71, 114, 111, 117, 112>>>>,
            <<"Label", <<76, 97, 98, 101, 108>>>>,
            <<"Label Reference List", <<76, 97, 98, 101, 108, 32, 82, 101, 102, 101, 114, 101, 110, 99, 101, 32, 76, 105, 115, 116>>>>,
            <<"Line", <<76, 105, 110, 101>>>>,
            <<"Line Style", <<76, 105, 110, 101, 32, 83, 116, 121, 108, 101>>>>,
            <<"LineAttributes", <<76, 105, 110, 101, 65, 116, 116, 114, 105, 98, 117, 116, 101, 115>>>>,
            <<"Linear Bar", <<76, 105, 110, 101, 97, 114, 32, 66, 97, 114>>>>,
            <<"List Display", <<76, 105, 115, 116, 32, 68, 105, 115, 112, 108, 97, 121>>>>,
            <<"List Input", <<76, 105, 115, 116, 32, 73, 110, 112, 117, 116>>>>,
            <<"Macro", <<77, 97, 99, 114, 111>>>>,
            <<"Main Container", <<77, 97, 105, 110, 32, 67, 111, 110, 116, 97, 105, 110, 101, 114>>>>,
            <<"Main Screen", <<77, 97, 105, 110, 32, 83, 99, 114, 101, 101, 110>>>>,
            <<"Meter", <<77, 101, 116, 101, 114>>>>,
            <<"Number Display", <<78, 117, 109, 98, 101, 114, 32, 68, 105, 115, 112, 108, 97, 121>>>>,
            <<"Number Input", <<78, 117, 109, 98, 101, 114, 32, 73, 110, 112, 117, 116>>>>,
            <<"Number Variable", <<78, 117, 109, 98, 101, 114, 32, 86, 97, 114, 105, 97, 98, 108, 101>>>>,
            <<"NumberVariable", <<78, 117, 109, 98, 101, 114, 86, 97, 114, 105, 97, 98, 108, 101>>>>,
            <<"OK Button", <<79, 75, 32, 66, 117, 116, 116, 111, 110>>>>,
            <<"Object Reference", <<79, 98, 106, 101, 99, 116, 32, 82, 101, 102, 101, 114, 101, 110, 99, 101>>>>,
            <<"ObjectLabelReferenceList", <<79, 98, 106, 101, 99, 116, 76, 97, 98, 101, 108, 82, 101, 102, 101, 114, 101, 110, 99, 101, 76, 105, 115, 116>>>>,
            <<"ObjectPointer", <<79, 98, 106, 101, 99, 116, 80, 111, 105, 110, 116, 101, 114>>>>,
            <<"OutputArchedBarGraph", <<79, 117, 116, 112, 117, 116, 65, 114, 99, 104, 101, 100, 66, 97, 114, 71, 114, 97, 112, 104>>>>,
            <<"OutputEllipse", <<79, 117, 116, 112, 117, 116, 69, 108, 108, 105, 112, 115, 101>>>>,
            <<"OutputLine", <<79, 117, 116, 112, 117, 116, 76, 105, 110, 101>>>>,
            <<"OutputLinearBarGraph", <<79, 117, 116, 112, 117, 116, 76, 105, 110, 101, 97, 114, 66, 97, 114, 71, 114, 97, 112, 104>>>>,
            <<"OutputList", <<79, 117, 116, 112, 117, 116, 76, 105, 115, 116>>>>,
            <<"OutputMeter", <<79, 117, 116, 112, 117, 116, 77, 101, 116, 101, 114>>>>,
            <<"OutputNumber", <<79, 117, 116, 112, 117, 116, 78, 117, 109, 98, 101, 114>>>>,
            <<"OutputPolygon", <<79, 117, 116, 112, 117, 116, 80, 111, 108, 121, 103, 111, 110>>>>,
            <<"OutputRectangle", <<79, 117, 116, 112, 117, 116, 82, 101, 99, 116, 97, 110, 103, 108, 101>>>>,
            <<"OutputString", <<79, 117, 116, 112, 117, 116, 83, 116, 114, 105, 110, 103>>>>,
            <<"Picture", <<80, 105, 99, 116, 117, 114, 101>>>>,
            <<"PictureGraphic", <<80, 105, 99, 116, 117, 114, 101, 71, 114, 97, 112, 104, 105, 99>>>>,
            <<"Polygon", <<80, 111, 108, 121, 103, 111, 110>>>>,
            <<"Rectangle", <<82, 101, 99, 116, 97, 110, 103, 108, 101>>>>,
            <<"Scaled Graphic", <<83, 99, 97, 108, 101, 100, 32, 71, 114, 97, 112, 104, 105, 99>>>>,
            <<"ScaledGraphic", <<83, 99, 97, 108, 101, 100, 71, 114, 97, 112, 104, 105, 99>>>>,
            <<"Soft Key", <<83, 111, 102, 116, 32, 75, 101, 121>>>>,
            <<"Soft Key Mask", <<83, 111, 102, 116, 32, 75, 101, 121, 32, 77, 97, 115, 107>>>>,
            <<"SoftKeyMask", <<83, 111, 102, 116, 75, 101, 121, 77, 97, 115, 107>>>>,
            <<"Special Controls", <<83, 112, 101, 99, 105, 97, 108, 32, 67, 111, 110, 116, 114, 111, 108, 115>>>>,
            <<"String Variable", <<83, 116, 114, 105, 110, 103, 32, 86, 97, 114, 105, 97, 98, 108, 101>>>>,
            <<"StringVariable", <<83, 116, 114, 105, 110, 103, 86, 97, 114, 105, 97, 98, 108, 101>>>>,
            <<"Text Display", <<84, 101, 120, 116, 32, 68, 105, 115, 112, 108, 97, 121>>>>,
            <<"Text Input", <<84, 101, 120, 116, 32, 73, 110, 112, 117, 116>>>>,
            <<"Window Mask", <<87, 105, 110, 100, 111, 119, 32, 77, 97, 115, 107>>>>,
            <<"WindowMask", <<87, 105, 110, 100, 111, 119, 77, 97, 115, 107>>>>,
            <<"Working Set", <<87, 111, 114, 107, 105, 110, 103, 32, 83, 101, 116>>>>,
            <<"WorkingSet", <<87, 111, 114, 107, 105, 110, 103, 83, 101, 116>>>>,
            <<"WorkingSetSpecialControls", <<87, 111, 114, 107, 105, 110, 103, 83, 101, 116, 83, 112, 101, 99, 105, 97, 108, 67, 111, 110, 116, 114, 111, 108, 115>>>> }
    IN  [name \in {b[1] : b \in bytes} |-> (CHOOSE b \in bytes : b[1] = name)[2]]

\* the digits of a numbered name go up to this
MaxNameNumber == 16

\* the bytes `{}` prints for a number: its decimal digits from b'0' on
DigitBytes(n) == [k \in DOMAIN Digits(n) |-> 48 + Digits(n)[k]]

\* str::as_bytes of a name: a string of the table, or "{base} {number}"
Bytes(name) ==
    IF name \in DOMAIN Utf8 THEN Utf8[name]
    ELSE LET numbered == CHOOSE bn \in (DOMAIN Utf8) \X (0 .. MaxNameNumber) :
                             name = bn[1] \o " " \o ToString(bn[2])
         IN  Utf8[numbered[1]] \o <<32>> \o DigitBytes(numbered[2])

\* the comparison of two byte strings, given as sequences of numbers
RECURSIVE LexLess(_, _)
LexLess(a, b) ==
    IF b = <<>> THEN FALSE
    ELSE IF a = <<>> THEN TRUE
    ELSE IF Head(a) # Head(b) THEN Head(a) < Head(b)
    ELSE LexLess(Tail(a), Tail(b))

\* the bytes of ObjectInfo::get_name: the stored name, or "{id}: {type}"
NameBytes(info, o) ==
    IF o.id \in DOMAIN info /\ info[o.id].name # <<>>
    THEN Bytes(info[o.id].name[1])
    ELSE DigitBytes(o.id) \o <<58, 32>> \o Utf8[o.type]

\* "Sort by name": pool_copy.get_object_info(a).get_name(a) compared with that of
\* b as strings, byte by byte.  The lookup inserts into pool_copy, a clone, so
\* the project keeps its table.
NameLess(info, a, b) == LexLess(NameBytes(info, a), NameBytes(info, b))

\* "Sort by type" and "Sort by id"
TypeLess(a, b) == IndexIn(ObjectTypesByNumber, a.type) < IndexIn(ObjectTypesByNumber, b.type)
IdLess(a, b) == a.id < b.id

\* slice::sort_by, a stable sort: an element goes behind those that are less
\* and those before it that are not greater.  The comparator cmp is the table of
\* its answers: cmp[<<a, b>>] is true when it puts a before b (Ordering::Less).
StableSort(s, cmp) ==
    LET Before(i, j) == cmp[<<s[i], s[j]>>] \/ (~cmp[<<s[j], s[i]>>] /\ i < j)
        place(i) == 1 + Cardinality({j \in DOMAIN s : j # i /\ Before(j, i)})
    IN  [k \in DOMAIN s |-> s[CHOOSE i \in DOMAIN s : place(i) = k]]

\* EditorProject::sort_objects_by: the staged pool is sorted
sort_objects_by(p, cmp) == [p EXCEPT !.mut_pool = StableSort(@, cmp)]

\* the rows of a list of objects: render_selectable_object for each
RECURSIVE render_selectable_objects(_, _)
render_selectable_objects(p, objects) ==
    IF objects = <<>> THEN p
    ELSE render_selectable_objects(get_object_info(p, Head(objects)).project,
                                   Tail(objects))

AuxiliaryTypes ==
    { "AuxiliaryFunctionType1", "AuxiliaryInputType1",
      "AuxiliaryFunctionType2", "AuxiliaryInputType2" }

\* what the user does in the left panel during one pass: nothing, a click on
\* the row of the i-th object of the list, "Delete" in the context menu of that
\* row, or one of the entries of the sort menu
NoInput == [kind |-> "none"]
LeftPanelInputs(p) ==
    {NoInput}
        \cup [kind : {"click", "delete"}, row : DOMAIN p.pool]
        \cup [kind : {"sort"}, by : {"type", "name", "id"}]

\* DesignerApp::update, the left panel: the hierarchy below the working set, or
\* the label that there is none, the rows of the auxiliary objects, the sort
\* menu, then the list of all objects (get_object_info for each, whatever the
\* filter text)
left_panel(p, open_depth, input) ==
    LET ws == working_set_object(p.pool)
        h == IF ws # <<>> THEN render_object_hierarchy(p, ws[1], open_depth)
             ELSE [project |-> p, labels |-> <<NoWorkingSet>>]
        aux == render_selectable_objects(
                   h.project, SelectSeq(p.pool, LAMBDA o : o.type \in AuxiliaryTypes))
        pairs == Range(aux.mut_pool) \X Range(aux.mut_pool)
        sorted == IF input.kind # "sort" THEN aux
                  ELSE CASE input.by = "type" ->
                                sort_objects_by(aux,
                                    [ab \in pairs |-> TypeLess(ab[1], ab[2])])
                         [] input.by = "name" ->
                                sort_objects_by(aux,
                                    [ab \in pairs |->
                                        NameLess(aux.object_info, ab[1], ab[2])])
                         [] input.by = "id" ->
                                sort_objects_by(aux,
                                    [ab \in pairs |-> IdLess(ab[1], ab[2])])
        listed == render_object_list(sorted, 1)
    IN  [ project |-> CASE input.kind = "click" ->
                               select_object(listed, p.pool[input.row].id)
                        [] input.kind = "delete" ->
                               delete_object(listed, p.pool[input.row].id)
                        [] OTHER -> listed,
          labels |-> h.labels ]

MissingDataMasks == "Missing data masks, please load a pool file or add a new mask..."
NoWorkingSets == "No working sets, please add a new working set..."
MissingDataMask == "Missing data mask"
SelectedObjectNotFound == "Selected object not found"
MissingObjectInPool == "Missing object in pool"

\* DesignerApp::update, the central panel: the active mask of the working set
\* under an InteractiveMaskRenderer, which renders the mask and then, with the
\* pointer over it ("hover", "click"), looks for the object under the pointer; a
\* click stages the selection of that object
central_panel(p, pointer, hit) ==
    LET ws == working_set_object(p.pool)
        still == [project |-> p, overflow |-> FALSE, labels |-> <<>>]
    IN  IF ~\E i \in DOMAIN p.pool : p.pool[i].type = "DataMask"
        THEN [still EXCEPT !.labels = <<MissingDataMasks>>]
        ELSE IF ws = <<>> THEN [still EXCEPT !.labels = <<NoWorkingSets>>]
        ELSE IF ~HasObject(p.pool, ws[1].active_mask)
        THEN [still EXCEPT !.labels = <<MissingDataMask>>]
        ELSE LET obj == object_by_id(p.pool, ws[1].active_mask)
                 r == render(obj, p.pool, {})
                 f == find_object_recursive(obj, p.pool, hit, {})
             IN  IF r.overflow THEN [still EXCEPT !.overflow = TRUE]
                 ELSE IF pointer = "away" THEN [still EXCEPT !.labels = r.labels]
                 ELSE IF f.overflow THEN [still EXCEPT !.overflow = TRUE]
                 ELSE [ project |-> IF pointer = "click" /\ f.found # NULL_ID
                                    THEN select_object(p, f.found) ELSE p,
                        overflow |-> FALSE,
                        labels |-> r.labels ]

\* VtVersion::Version3, the version every control of the panel asks the schema for
Version3 == 3

\* ObjectPool::objects_by_types: the objects of the pool of one of the types
objects_by_types(pool, types) == SelectSeq(pool, LAMBDA o : o.type \in Range(types))

\* ObjectPool::parent_objects: the objects of the pool that refer to id
parent_objects(pool, id) ==
    SelectSeq(pool, LAMBDA o : id \in Range(referenced_objects(o)))

\* Vec<ObjectType> of flat_map(f) over a sequence of objects
RECURSIVE FlatMapTypes(_, _)
FlatMapTypes(objects, version) ==
    IF objects = <<>> THEN <<>>
    ELSE get_allowed_child_refs(Head(objects).type, version)
             \o FlatMapTypes(Tail(objects), version)

\* the types whose render_parameters shows a list of child references
ListOwnerTypes ==
    { "WorkingSet", "DataMask", "AlarmMask", "Container", "SoftKeyMask", "Key",
      "Button", "InputList", "OutputList", "AuxiliaryFunctionType2",
      "AuxiliaryInputType2" }

\* mutation: the controls of a Container offer the data masks of the pool
Self_get_allowed_child_refs_WorkingSetRule(object_type, version) ==
    CASE object_type = "WorkingSet" -> WorkingSet_get_allowed_child_refs(version)
      [] object_type = "DataMask" -> DataMask_get_allowed_child_refs(version)
      [] object_type = "AlarmMask" -> AlarmMask_get_allowed_child_refs(version)
      [] object_type = "Container" -> << "DataMask" >>
      [] object_type = "SoftKeyMask" -> SoftKeyMask_get_allowed_child_refs(version)
      [] object_type = "Key" -> Key_get_allowed_child_refs(version)
      [] object_type = "Button" -> Button_get_allowed_child_refs(version)
      [] object_type = "InputList" -> InputList_get_allowed_child_refs(version)
      [] object_type = "OutputList" -> OutputList_get_allowed_child_refs(version)
      [] object_type = "AuxiliaryFunctionType2" ->
            AuxiliaryFunctionType2_get_allowed_child_refs(version)
      [] object_type = "AuxiliaryInputType2" ->
            AuxiliaryInputType2_get_allowed_child_refs(version)

\* render_parameters of the list owners: &Self::get_allowed_child_refs(version),
\* the list handed to render_object_references_list, render_object_id_list and
\* render_nullable_object_id_list
Self_get_allowed_child_refs(object_type, version) ==
    CASE object_type = "WorkingSet" -> WorkingSet_get_allowed_child_refs(version)
      [] object_type = "DataMask" -> DataMask_get_allowed_child_refs(version)
      [] object_type = "AlarmMask" -> AlarmMask_get_allowed_child_refs(version)
      [] object_type = "Container" -> Container_get_allowed_child_refs(version)
      [] object_type = "SoftKeyMask" -> SoftKeyMask_get_allowed_child_refs(version)
      [] object_type = "Key" -> Key_get_allowed_child_refs(version)
      [] object_type = "Button" -> Button_get_allowed_child_refs(version)
      [] object_type = "InputList" -> InputList_get_allowed_child_refs(version)
      [] object_type = "OutputList" -> OutputList_get_allowed_child_refs(version)
      [] object_type = "AuxiliaryFunctionType2" ->
            AuxiliaryFunctionType2_get_allowed_child_refs(version)
      [] object_type = "AuxiliaryInputType2" ->
            AuxiliaryInputType2_get_allowed_child_refs(version)

\* render_object_id_selector and render_add_object_id (allow_none false): the
\* ids the combo box offers
render_object_id_selector(pool, allowed_child_objects) ==
    PoolIds(objects_by_types(pool, allowed_child_objects))

\* render_nullable_object_id_selector and render_add_object_id (allow_none
\* true): "None" and the ids render_object_id_selector offers
render_nullable_object_id_selector(pool, allowed_child_objects) ==
    {NULL_ID} \cup render_object_id_selector(pool, allowed_child_objects)

\* impl ConfigurableObject for ObjectPointer, the "Object reference" combo box:
\* the ids offered besides "None"
ObjectPointer_candidates(pool, self_id) ==
    PoolIds(objects_by_types(pool, FlatMapTypes(parent_objects(pool, self_id), Version3)))

\* the object the parameters panel edits: the staged object with the id of the
\* committed selection
PanelIndex(p) == FirstIndexOf(p.mut_pool, p.selected_object)

PanelShowsObject(p) ==
    /\ p.selected_object # NULL_ID
    /\ HasObject(p.mut_pool, p.selected_object)

\* the object the parameters panel edits
PanelObject(p) == p.mut_pool[PanelIndex(p)]

\* <impl ConfigurableObject for Object>::render_parameters, the arms `=> ()`:
\* the types whose panel holds no widget, the Object ID included
NoParametersTypes ==
    { "AuxiliaryFunctionType1", "AuxiliaryInputType1", "WindowMask", "KeyGroup",
      "GraphicsContext", "ExtendedInputAttributes", "ColourMap",
      "ObjectLabelReferenceList", "ExternalObjectDefinition",
      "ExternalReferenceName", "ExternalObjectPointer", "Animation",
      "ColourPalette", "GraphicData", "WorkingSetSpecialControls", "ScaledGraphic" }

\* the panel of the object starts with the Object ID widget of render_object_id
HasObjectIdWidget(p) ==
    PanelShowsObject(p) /\ PanelObject(p).type \notin NoParametersTypes

\* What the user does in the parameters panel in one pass: nothing ("none"),
\* or one widget used.  "id": the drag value of render_object_id set to `id`;
\* "select": `id` picked in the combo box of the field; "retarget": `id` picked
\* in the selector of row idx of the list `field`; "move_up", "move_down",
\* "remove": that button of row idx; "add": `id` picked in "Add object" or
\* "Add macro" under the list; "view": the link to the object `id` clicked;
\* "set": the check box, radio buttons, drag value, slider or plain combo box of
\* the field left at the value `id`.  The other sliders, check boxes and text
\* fields of the panel edit fields the records of the model do not hold.
PanelInput(kind, field, idx, id) ==
    [kind |-> kind, field |-> field, idx |-> idx, id |-> id]

NoPanelInput == PanelInput("none", "", 0, NULL_ID)

\* an object with one field set
WithField(object, name, value) ==
    [n \in DOMAIN object \cup {name} |-> IF n = name THEN value ELSE object[n]]

\* a widget that sets a field to one of `values`; `dragged` widgets take the
\* value from the pointer or the keyboard
Widget(field, values, default, dragged) ==
    [field |-> field, values |-> values, default |-> default, dragged |-> dragged]

\* The check boxes, radio buttons, drag values, sliders and plain combo boxes
\* of render_parameters that set a field an operator of the model reads, in the
\* order the panel shows them, with the values each can leave in the field.  A
\* slider keeps to its range, a drag value to the range of the field's type
\* (the u32, i32 and f32 fields as far as the numbers of the model reach, the
\* scale in whole numbers).  "Initial value" is shown while the variable
\* reference is None.  The font type is set by two widgets: the check box
\* "Proprietary Font" gives Proprietary, or Latin1 when unchecked, and the combo
\* box "font_type", shown for a font that is not proprietary, Latin1 or Latin9.
PanelFields(object, mask_size) ==
    LET initial_value ==
            IF NullableIdField(object, "variable_reference") = NULL_ID
            THEN << Widget("value", Nat, 0, TRUE) >> ELSE <<>>
        number ==
            << Widget("display_zero_as_blank", BOOLEAN, FALSE, FALSE) >>
                \o initial_value
                \o << Widget("offset", Int, 0, TRUE), Widget("scale", Int, 0, TRUE),
                      Widget("horizontal", {"Left", "Middle", "Right"}, "Left", FALSE) >>
    IN  CASE object.type = "WorkingSet" ->
                << Widget("selectable", BOOLEAN, FALSE, FALSE) >>
          [] object.type = "Container" ->
                << Widget("hidden", BOOLEAN, FALSE, FALSE),
                   Widget("height", 0 .. mask_size, 0, TRUE) >>
          [] object.type \in {"Key", "Button"} ->
                << Widget("key_code", 0 .. 255, 0, TRUE) >>
          [] object.type \in {"InputNumber", "OutputNumber"} -> number
          [] object.type = "OutputString" ->
                << Widget("horizontal", {"Left", "Middle", "Right"}, "Left", FALSE) >>
          [] object.type = "NumberVariable" -> << Widget("value", Nat, 0, TRUE) >>
          [] object.type = "FontAttributes" ->
                << Widget("font_type",
                          IF Field(object, "font_type", "Latin1") = "Proprietary"
                          THEN {"Latin1"} ELSE {"Proprietary", "Latin1", "Latin9"},
                          "Latin1", FALSE) >>
          [] object.type = "FillAttributes" ->
                << Widget("fill_type", 0 .. 3, 0, FALSE) >>
          [] object.type = "AuxiliaryControlDesignatorType2" ->
                << Widget("pointer_type", 0 .. 3, 0, FALSE) >>
          [] OTHER -> <<>>

\* the widgets of PanelFields with the input of the user: the value is stored
render_fields(object, mask_size, input) ==
    LET Stores(fields) ==
            \E i \in DOMAIN fields :
                input.field = fields[i].field /\ input.id \in fields[i].values
    IN  IF input.kind = "set" /\ Stores(PanelFields(object, mask_size))
        THEN WithField(object, input.field, input.id)
        ELSE object

\* the types whose render_parameters ends with render_macro_references
MacroOwnerTypes ==
    { "WorkingSet", "DataMask", "AlarmMask", "Container", "SoftKeyMask", "Key",
      "Button", "InputBoolean", "InputString", "InputNumber", "InputList",
      "OutputString", "OutputNumber", "OutputList", "OutputLine", "OutputRectangle",
      "OutputEllipse", "OutputPolygon", "OutputMeter", "OutputLinearBarGraph",
      "OutputArchedBarGraph", "PictureGraphic", "FontAttributes", "LineAttributes",
      "FillAttributes", "InputAttributes" }

\* The lists render_parameters shows for a type, in the order it shows them:
\* object_refs by render_object_references_list ("refs"), objects by
\* render_object_id_list ("ids"), list_items by render_nullable_object_id_list
\* ("nullable"), macro_refs by render_macro_references ("macros"), each with the
\* types its selectors are handed.  A list of the model holds the ids alone:
\* the offset of an ObjectRef and the event of a MacroRef refer to no object.
PanelLists(type) ==
    (IF type \in ListOwnerTypes
     THEN << [ field |-> CASE type = "SoftKeyMask" -> "objects"
                           [] type \in {"InputList", "OutputList"} -> "list_items"
                           [] OTHER -> "object_refs",
               list |-> CASE type = "SoftKeyMask" -> "ids"
                          [] type \in {"InputList", "OutputList"} -> "nullable"
                          [] OTHER -> "refs",
               allowed |-> Self_get_allowed_child_refs(type, Version3) ] >>
     ELSE <<>>)
    \o (IF type \in MacroOwnerTypes
        THEN << [field |-> "macro_refs", list |-> "macros", allowed |-> <<"Macro">>] >>
        ELSE <<>>)

\* `u16::from(id) as u8`, the macro id a MacroRef stores for a Macro object
MacroId(id) == id % 256

\* what a list stores for the object picked
Stored(desc, id) == IF desc.list = "macros" THEN MacroId(id) ELSE id

\* the ids "Add object" / "Add macro" under a list offers
AddOffers(pool, desc) ==
    IF desc.list = "nullable"
    THEN render_nullable_object_id_selector(pool, desc.allowed)
    ELSE render_object_id_selector(pool, desc.allowed)

\* the ids the selector of a row offers; the macro combo box of a row is shown
\* only when a Macro object of the pool has the row's macro id
RowOffers(pool, desc, value) ==
    IF desc.list = "macros"
    THEN IF value \in render_object_id_selector(pool, desc.allowed)
         THEN render_object_id_selector(pool, desc.allowed) ELSE {}
    ELSE AddOffers(pool, desc)

\* render_index_modifiers on row idx with one of its buttons clicked: "Move up"
\* is enabled below the first row, "Move down" above the last
render_index_modifiers(list, idx, clicked) ==
    CASE clicked = "move_up" /\ idx > 1 ->
            [list EXCEPT ![idx] = list[idx - 1], ![idx - 1] = list[idx]]
      [] clicked = "move_down" /\ idx < Len(list) ->
            [list EXCEPT ![idx] = list[idx + 1], ![idx + 1] = list[idx]]
      [] clicked = "remove" ->
            SubSeq(list, 1, idx - 1) \o SubSeq(list, idx + 1, Len(list))
      [] OTHER -> list

\* The `while idx < len` loop of render_object_references_list,
\* render_object_id_list, render_nullable_object_id_list and
\* render_macro_references from row idx on: the selector of the row, its link or
\* "Missing object", then render_index_modifiers.  The first two look the object
\* up before the selector runs, the nullable list after it; the loop goes on
\* with idx + 1 in the list as the buttons left it.  A missing macro is a plain
\* label.
RECURSIVE render_list_rows(_, _, _, _, _)
render_list_rows(pool, list, idx, desc, input) ==
    IF idx > Len(list) THEN [list |-> list, labels |-> <<>>]
    ELSE LET mine == input.field = desc.field /\ input.idx = idx
             Row(selected) ==
                 LET looked_up == IF desc.list = "nullable" THEN selected[idx]
                                  ELSE list[idx]
                     Labelled(rest) ==
                         [ list |-> rest.list,
                           labels |-> (IF \/ desc.list = "macros"
                                          \/ looked_up = NULL_ID /\ desc.list = "nullable"
                                          \/ HasObject(pool, looked_up)
                                       THEN <<>> ELSE <<MissingObject>>) \o rest.labels ]
                 IN  Labelled(render_list_rows(
                                  pool,
                                  render_index_modifiers(
                                      selected, idx, IF mine THEN input.kind ELSE "none"),
                                  idx + 1, desc, input))
         IN  Row(IF /\ mine /\ input.kind = "retarget"
                    /\ input.id \in RowOffers(pool, desc, list[idx])
                 THEN [list EXCEPT ![idx] = Stored(desc, input.id)] ELSE list)

\* one list of the panel: its rows, then render_add_object_id or
\* render_add_macro_reference, whose pick is pushed
render_list(pool, list, desc, input) ==
    LET Pushed(rows) ==
            IF /\ input.kind = "add" /\ input.field = desc.field
               /\ input.id \in AddOffers(pool, desc)
            THEN [rows EXCEPT !.list = Append(@, Stored(desc, input.id))]
            ELSE rows
    IN  Pushed(render_list_rows(pool, list, 1, desc, input))

\* the lists of the panel of an object, one after the other
RECURSIVE render_lists(_, _, _, _)
render_lists(object, pool, lists, input) ==
    IF lists = <<>> THEN [object |-> object, labels |-> <<>>]
    ELSE LET Then(r) ==
                 LET Both(rest) == [rest EXCEPT !.labels = r.labels \o @]
                 IN  Both(render_lists(
                              IF r.list = Field(object, Head(lists).field, <<>>)
                              THEN object
                              ELSE WithField(object, Head(lists).field, r.list),
                              pool, Tail(lists), input))
         IN  Then(render_list(pool, Field(object, Head(lists).field, <<>>),
                              Head(lists), input))

SelectorOf(field, types, nullable) ==
    [field |-> field, types |-> types, nullable |-> nullable]

\* The combo boxes of render_parameters that set one reference of the object,
\* each with the fixed list of types whose objects it offers and whether it
\* offers "None": none of them asks the schema, except the one of an
\* ObjectPointer, which asks it for the children of the pointer's parents.  The
\* fill pattern is offered for fill type 3, the auxiliary object for a pointer
\* type other than 2.
PanelSelectors(object, pool) ==
    CASE object.type = "WorkingSet" ->
            { SelectorOf("active_mask", <<"DataMask", "AlarmMask">>, FALSE) }
      [] object.type \in {"DataMask", "AlarmMask"} ->
            { SelectorOf("soft_key_mask", <<"SoftKeyMask">>, TRUE) }
      [] object.type = "InputBoolean" ->
            { SelectorOf("foreground_colour", <<"FontAttributes">>, FALSE),
              SelectorOf("variable_reference", <<"NumberVariable">>, TRUE) }
      [] object.type = "InputString" ->
            { SelectorOf("font_attributes", <<"FontAttributes">>, FALSE),
              SelectorOf("input_attributes", <<"InputAttributes">>, TRUE),
              SelectorOf("variable_reference", <<"StringVariable">>, TRUE) }
      [] object.type \in {"InputNumber", "OutputNumber"} ->
            { SelectorOf("font_attributes", <<"FontAttributes">>, FALSE),
              SelectorOf("variable_reference", <<"NumberVariable">>, TRUE) }
      [] object.type = "OutputString" ->
            { SelectorOf("font_attributes", <<"FontAttributes">>, FALSE),
              SelectorOf("variable_reference", <<"StringVariable">>, TRUE) }
      [] object.type \in {"InputList", "OutputList", "OutputMeter"} ->
            { SelectorOf("variable_reference", <<"NumberVariable">>, TRUE) }
      [] object.type = "OutputLine" ->
            { SelectorOf("line_attributes", <<"LineAttributes">>, FALSE) }
      [] object.type \in {"OutputRectangle", "OutputEllipse", "OutputPolygon"} ->
            { SelectorOf("line_attributes", <<"LineAttributes">>, FALSE),
              SelectorOf("fill_attributes", <<"FillAttributes">>, TRUE) }
      [] object.type \in {"OutputLinearBarGraph", "OutputArchedBarGraph"} ->
            { SelectorOf("variable_reference", <<"NumberVariable">>, TRUE),
              SelectorOf("target_value_variable_reference", <<"NumberVariable">>,
                         TRUE) }
      [] object.type = "FillAttributes" ->
            IF Field(object, "fill_type", 0) = 3
            THEN { SelectorOf("fill_pattern", <<"PictureGraphic">>, TRUE) } ELSE {}
      [] object.type = "ObjectPointer" ->
            { SelectorOf("value",
                         FlatMapTypes(parent_objects(pool, object.id), Version3),
                         TRUE) }
      [] object.type = "AuxiliaryControlDesignatorType2" ->
            IF Field(object, "pointer_type", 0) # 2
            THEN { SelectorOf("auxiliary_object_id",
                              <<"AuxiliaryFunctionType2", "AuxiliaryInputType2">>,
                              FALSE) }
            ELSE {}
      [] OTHER -> {}

\* the ids a combo box of the panel offers
SelectorOffers(pool, selector) ==
    IF selector.nullable
    THEN render_nullable_object_id_selector(pool, selector.types)
    ELSE render_object_id_selector(pool, selector.types)

\* the combo boxes of the panel with the input of the user: a pick is stored
render_selectors(object, pool, input) ==
    IF /\ input.kind = "select"
       /\ \E s \in PanelSelectors(object, pool) :
              s.field = input.field /\ input.id \in SelectorOffers(pool, s)
    THEN WithField(object, input.field, input.id)
    ELSE object

MissingPatternObject == "Missing pattern object"

\* the "(view)" link of a field that names an object, or the red label in its place
ViewLink(pool, id, label) ==
    IF id # NULL_ID /\ ~HasObject(pool, id) THEN <<label>> ELSE <<>>

\* the red labels render_parameters shows next to its combo boxes
render_view_links(object, pool) ==
    CASE object.type = "OutputLine" ->
            ViewLink(pool, IdField(object, "line_attributes"), MissingObject)
      [] object.type \in {"OutputRectangle", "OutputEllipse", "OutputPolygon"} ->
            ViewLink(pool, IdField(object, "line_attributes"), MissingObject)
                \o ViewLink(pool, NullableIdField(object, "fill_attributes"), MissingObject)
      [] object.type = "FillAttributes" ->
            IF Field(object, "fill_type", 0) = 3
            THEN ViewLink(pool, NullableIdField(object, "fill_pattern"),
                          MissingPatternObject)
            ELSE <<>>
      [] object.type = "ObjectPointer" ->
            ViewLink(pool, NullableIdField(object, "value"), MissingObjectInPool)
      [] object.type = "AuxiliaryControlDesignatorType2" ->
            IF Field(object, "pointer_type", 0) # 2
            THEN ViewLink(pool, NullableIdField(object, "auxiliary_object_id"),
                          MissingObjectInPool)
            ELSE <<>>
      [] OTHER -> <<>>

\* the fields render_parameters writes whatever the user does: a reserved font
\* type is reset to Latin1, the auxiliary object of a designator with pointer
\* type 2 to NULL
RenderParametersWrites(object) ==
    CASE /\ object.type = "FontAttributes"
         /\ Field(object, "font_type", "Latin1") = "Reserved" ->
            [object EXCEPT !.font_type = "Latin1"]
      [] /\ object.type = "AuxiliaryControlDesignatorType2"
         /\ Field(object, "pointer_type", 0) = 2
         /\ "auxiliary_object_id" \in DOMAIN object ->
            [object EXCEPT !.auxiliary_object_id = NULL_ID]
      [] OTHER -> object

\* The objects the links of the panel lead to.  The links of the rows, of the
\* attribute fields and of a pointer are shown for an object the pool resolves;
\* "(view)" of the active mask is always there, that of the soft key mask
\* whenever the field is not None.
PanelLinks(object, pool) ==
    LET rows == UNION { Range(Field(object, desc.field, <<>>)) :
                        desc \in { d \in Range(PanelLists(object.type)) :
                                   d.list # "macros" } }
        macros == { id \in render_object_id_selector(pool, <<"Macro">>) :
                      id \in Range(Field(object, "macro_refs", <<>>)) }
        resolved ==
            CASE object.type = "OutputLine" -> {IdField(object, "line_attributes")}
              [] object.type \in {"OutputRectangle", "OutputEllipse", "OutputPolygon"} ->
                    { IdField(object, "line_attributes"),
                      NullableIdField(object, "fill_attributes") }
              [] object.type = "FillAttributes" /\ Field(object, "fill_type", 0) = 3 ->
                    {NullableIdField(object, "fill_pattern")}
              [] object.type = "ObjectPointer" -> {NullableIdField(object, "value")}
              [] /\ object.type = "AuxiliaryControlDesignatorType2"
                 /\ Field(object, "pointer_type", 0) # 2 ->
                    {NullableIdField(object, "auxiliary_object_id")}
              [] OTHER -> {}
        always ==
            CASE object.type = "WorkingSet" -> {IdField(object, "active_mask")}
              [] object.type \in {"DataMask", "AlarmMask"} ->
                    {NullableIdField(object, "soft_key_mask")} \ {NULL_ID}
              [] OTHER -> {}
    IN  { id \in rows \cup resolved : HasObject(pool, id) } \cup macros \cup always

\* <impl ConfigurableObject for Object>::render_parameters after render_object_id:
\* the widgets of the fields, the combo boxes, the lists, the fields it writes;
\* the red labels it shows and where a clicked link leads (navigation_selected).
\* The types of NoParametersTypes have none of these.
render_parameters(object, design, input) ==
    LET pool == design.pool
        Listed(selected) ==
            LET Written(lists) ==
                    [ object |-> RenderParametersWrites(lists.object),
                      labels |-> lists.labels \o render_view_links(selected, pool),
                      navigation |-> IF /\ input.kind = "view"
                                        /\ input.id \in PanelLinks(object, pool)
                                     THEN <<input.id>> ELSE <<>> ]
            IN  Written(render_lists(selected, pool, PanelLists(object.type), input))
    IN  Listed(render_selectors(render_fields(object, design.mask_size, input),
                                pool, input))

\* DesignerApp::update, the parameters panel: render_parameters on the staged
\* object with the id of the committed selection, which starts with
\* render_object_id unless the type has no panel, then that object as the
\* panel left it rendered against the committed pool
parameters_panel(p, input) ==
    LET still == [project |-> p, overflow |-> FALSE, labels |-> <<>>]
        Drawn(renumbered, shown) ==
            LET Left(r) ==
                    IF r.overflow THEN [still EXCEPT !.overflow = TRUE]
                    ELSE [ project |->
                               [ renumbered EXCEPT
                                   !.mut_pool[PanelIndex(p)] = shown.object,
                                   !.mut_selected_object =
                                       IF shown.navigation = <<>> THEN @
                                       ELSE shown.navigation[1] ],
                           overflow |-> FALSE,
                           labels |-> shown.labels \o r.labels ]
            IN  Left(render(shown.object, p.pool, {}))
        Edited(renumbered) ==
            Drawn(renumbered,
                  render_parameters(renumbered.mut_pool[PanelIndex(p)], p, input))
    IN  IF p.selected_object = NULL_ID THEN still
        ELSE IF ~HasObject(p.mut_pool, p.selected_object)
        THEN [still EXCEPT !.labels = <<SelectedObjectNotFound>>]
        ELSE Edited(IF input.kind = "id" /\ HasObjectIdWidget(p)
                    THEN render_object_id(p, input.id) ELSE p)

\* DesignerApp::update, its last step: update_selected and, when the selection
\* changed, update_object_hierarchy_headers from the working set down
update_selected_headers(p) ==
    LET u == update_selected(p)
        ws == working_set_object(u.project.pool)
    IN  [ project |-> u.project,
          ret |-> u.ret,
          overflow |->
              IF u.ret /\ ws # <<>>
              THEN update_object_hierarchy_headers(ws[1], u.project.pool,
                                                   u.project.selected_object, {}).overflow
              ELSE FALSE ]

(***************************************************************************)
(* State                                                                   *)
(***************************************************************************)
VARIABLES
    project,   \* DesignerApp::project, the EditorProject
    status,    \* "running", or how the process ended: "hung", "panicked"
    op,        \* the handler that ran last
    ret,       \* what it returned: [changed |-> update_*'s result, id |-> allocated id]
    before,    \* the project as it was when that handler started
    nEdits,    \* staged edits so far
    commit_log, \* the pools replaced by the commits so far, while history is linear
    app        \* DesignerApp: file_dialog_reason, file_channel, the dialog tasks

vars == <<project, status, op, ret, before, nEdits, commit_log, app>>

\* DesignerApp::new: no reason, an empty channel, smart naming on import
\* enabled; no dialog task is running and no file was requested.  `loaded` is
\* whether DesignerApp::project is Some.
NewApp(loaded) ==
    [ file_dialog_reason |-> <<>>, file_channel |-> <<>>,
      apply_smart_naming_on_import |-> TRUE,
      tasks |-> <<>>, requests |-> 0, loaded |-> loaded ]

NoRet == [changed |-> FALSE, id |-> NULL_ID]

\* commit_log.commits lists, oldest first, the committed pool each changing
\* update_pool replaced, as long as the behaviour is commits followed by undos
\* (linear); a redo that takes effect, or a commit made after an undo, ends that.
NotLinear == [linear |-> FALSE, commits |-> <<>>]

LogAfter(name, r) ==
    IF name = "update_pool" /\ r.changed
    THEN IF commit_log.linear /\ project.redo_pool_history = <<>>
         THEN [commit_log EXCEPT !.commits = Append(@, project.pool)]
         ELSE NotLinear
    ELSE IF name = "redo" /\ project.redo_pool_history # <<>>
    THEN NotLinear
    ELSE commit_log

InitFrom(pools) ==
    /\ \E pool \in pools : project = FromPool(pool)
    /\ status = "running"
    /\ op = "from"
    /\ ret = NoRet
    /\ before = project
    /\ nEdits = 0
    /\ commit_log = [linear |-> TRUE, commits |-> <<>>]
    /\ app = NewApp(TRUE)

Init == InitFrom(ImportPools)

\* a handler that runs to its end: the project it leaves and what it returned
Ran(name, p, r) ==
    /\ status = "running"
    /\ project' = p
    /\ op' = name
    /\ ret' = r
    /\ before' = project
    /\ commit_log' = LogAfter(name, r)
    /\ UNCHANGED <<status, app>>

\* a panel that showed its labels, or overflowed the stack doing so; `input` is
\* what the user did to it
ShowedPanel(name, r, input) ==
    /\ status = "running"
    /\ project' = IF r.overflow THEN project ELSE r.project
    /\ status' = IF r.overflow THEN "stack_overflow" ELSE "running"
    /\ op' = name
    /\ ret' = [changed |-> FALSE, id |-> NULL_ID, labels |-> r.labels, input |-> input]
    /\ before' = project
    /\ UNCHANGED <<commit_log, app>>

CreateObject(maxEdits) ==
    /\ nEdits < maxEdits
    /\ \E type \in NewObjectTypes, name \in NewObjectNames :
         LET c == create_object(project, type, name)
         IN  /\ status = "running"
             /\ project' = c.project
             /\ status' = CASE c.outcome = "ok" -> "running"
                            [] c.outcome = "panic" -> "panicked"
                            [] OTHER -> "hung"
             /\ op' = "create"
             /\ ret' = [changed |-> FALSE, id |-> c.id]
             /\ before' = project
    /\ nEdits' = nEdits + 1
    /\ UNCHANGED <<commit_log, app>>

DeleteObject(maxEdits, ids) ==
    /\ nEdits < maxEdits
    /\ \E i \in DOMAIN project.pool :
         /\ project.pool[i].id \in ids
         /\ Ran("delete",
                delete_object(get_object_info(project, project.pool[i]).project,
                              project.pool[i].id),
                NoRet)
    /\ nEdits' = nEdits + 1

\* One pass of the parameters panel in which the user uses one widget: the
\* project it leaves, or the overflow of the drawing of the edited object
EditedInPanel(name, input, r, maxEdits) ==
    /\ status = "running"
    /\ nEdits < maxEdits
    /\ PanelShowsObject(project)
    /\ LET Left(shown) ==
               /\ project' = IF shown.overflow THEN project ELSE shown.project
               /\ status' = IF shown.overflow THEN "stack_overflow" ELSE "running"
       IN  Left(parameters_panel(project, input))
    /\ op' = name
    /\ ret' = r
    /\ before' = project
    /\ nEdits' = nEdits + 1
    /\ commit_log' = LogAfter(name, r)
    /\ UNCHANGED app

\* the parameters panel with the drag value of render_object_id changed, where
\* the panel has that widget
RenumberObject(maxEdits, ids) ==
    /\ HasObjectIdWidget(project)
    /\ \E new_id \in ids \ {project.selected_object} :
        EditedInPanel("renumber", PanelInput("id", "", 0, new_id),
                      [ changed |-> render_object_id(project, new_id) # project,
                        id |-> new_id ],
                      maxEdits)

\* where the user leaves a drag value or a slider
DraggedValues == {0, 1, 50}

\* a check box, a radio button, a drag value, a slider or a plain combo box of
\* the panel that sets a field of the object: the field is left at another
\* value than it had
SetParameter(maxEdits) ==
    /\ PanelShowsObject(project)
    /\ LET Set(object, fields) ==
               \E i \in DOMAIN fields :
                   \E value \in IF fields[i].dragged
                                THEN { v \in DraggedValues : v \in fields[i].values }
                                ELSE fields[i].values :
                       /\ value # Field(object, fields[i].field, fields[i].default)
                       /\ EditedInPanel("set_parameter",
                                        PanelInput("set", fields[i].field, 0, value),
                                        [ changed |-> FALSE, id |-> NULL_ID,
                                          parent_type |-> object.type,
                                          field |-> fields[i].field, value |-> value ],
                                        maxEdits)
       IN  Set(PanelObject(project),
               PanelFields(PanelObject(project), project.mask_size))

SelectObject(maxEdits, ids) ==
    /\ nEdits < maxEdits
    /\ \E i \in DOMAIN project.pool :
         /\ project.pool[i].id \in ids \ {project.mut_selected_object}
         /\ Ran("select",
                select_object(get_object_info(project, project.pool[i]).project,
                              project.pool[i].id),
                NoRet)
    /\ nEdits' = nEdits + 1

RenderObjectList ==
    /\ Ran("render", render_object_list(project, 1), NoRet)
    /\ UNCHANGED nEdits

RenameObject ==
    /\ \E i \in DOMAIN project.pool, name \in NewObjectNames, cancelled \in BOOLEAN :
         Ran("rename", rename_object(project, project.pool[i], name, cancelled), NoRet)
    /\ UNCHANGED nEdits

\* a call of AllowedChildRefs::get_allowed_child_refs: `ret` holds the arguments
\* and the list returned
GetAllowedChildRefs ==
    /\ status = "running"
    /\ \E t \in ObjectTypes \cup {"ObjectLabel"}, version \in VtVersions :
         /\ op' = "get_allowed_child_refs"
         /\ ret' = [ obj_type |-> t, version |-> version,
                     allowed |-> AllowedChildRefs(t, version) ]
    /\ UNCHANGED <<project, status, before, nEdits, commit_log, app>>

\* handle_file_loaded, FileDialogReason::LoadPool with "Apply smart naming on
\* import" set: the project made from the pool of the file, all its objects named
ImportPool(pools) ==
    /\ \E pool \in pools :
         LET imported == FromPool(pool)
         IN  Ran("apply_smart_naming_to_objects",
                 apply_smart_naming_to_objects(imported, imported.pool),
                 [changed |-> FALSE, id |-> NULL_ID, metadata |-> EmptyInfo])
    /\ UNCHANGED nEdits

\* handle_file_loaded, FileDialogReason::LoadProject
LoadProject(pools, metadatas) ==
    /\ \E pool \in pools, metadata \in metadatas, mask_size \in MaskSizes :
         \E last_selected \in PoolIds(pool) \cup {NULL_ID} :
             Ran("load_project", load_project(pool, metadata, mask_size, last_selected),
                 [ changed |-> FALSE, id |-> NULL_ID, metadata |-> metadata,
                   mask_size |-> mask_size, last_selected |-> last_selected ])
    /\ UNCHANGED nEdits

\* the "Add object" menu, a click on the button of object_type: the default name
\* handed to the new-object dialog
AddObjectItem(types) ==
    \E object_type \in types :
        LET g == generate_smart_name_for_new_object(project, object_type)
        IN  Ran("generate_smart_name_for_new_object", g.project,
                [ changed |-> FALSE, id |-> NULL_ID, object_type |-> object_type,
                  name |-> g.name ])

AddObjectMenu(types) == AddObjectItem(types) /\ UNCHANGED nEdits

UpdatePool ==
    /\ LET u == update_pool(project)
       IN  Ran("update_pool", u.project, [changed |-> u.ret, id |-> NULL_ID])
    /\ UNCHANGED nEdits

Undo ==
    /\ Ran("undo", undo(project), NoRet)
    /\ UNCHANGED nEdits

Redo ==
    /\ Ran("redo", redo(project), NoRet)
    /\ UNCHANGED nEdits

\* the last step of DesignerApp::update: update_selected and, when the selection
\* changed and the pool has a working set, the walk that opens the headers of
\* the hierarchy down to the selected object
UpdateSelected ==
    /\ LET u == update_selected_headers(project)
       IN  /\ status = "running"
           /\ project' = u.project
           /\ status' = IF u.overflow THEN "stack_overflow" ELSE "running"
           /\ op' = "update_selected"
           /\ ret' = [changed |-> u.ret, id |-> NULL_ID]
           /\ before' = project
    /\ UNCHANGED <<nEdits, commit_log, app>>

SetPreviousSelected ==
    /\ Ran("set_previous_selected", set_previous_selected(project), NoRet)
    /\ UNCHANGED nEdits

SetNextSelected ==
    /\ Ran("set_next_selected", set_next_selected(project), NoRet)
    /\ UNCHANGED nEdits

\* a caller of the library stages a selection through the cell that
\* EditorProject::get_mut_selected hands out
ReplaceMutSelected(maxEdits, ids) ==
    /\ nEdits < maxEdits
    /\ \E v \in ids \ {project.mut_selected_object} :
         Ran("select", select_object(project, v), NoRet)
    /\ nEdits' = nEdits + 1

Next ==
    \/ CreateObject(MaxEdits)
    \/ DeleteObject(MaxEdits, 0 .. U16_MAX)
    \/ RenumberObject(MaxEdits, EditIds)
    \/ SelectObject(MaxEdits, EditIds)
    \/ ReplaceMutSelected(MaxEdits, {NULL_ID})
    \/ UpdatePool
    \/ Undo
    \/ Redo
    \/ UpdateSelected
    \/ SetPreviousSelected
    \/ SetNextSelected

Spec == Init /\ [][Next]_vars

(***************************************************************************)
(* HistSpec: the pool history alone, deep enough to fill the undo stack    *)
(***************************************************************************)
HistImportPools == { <<>> }
HistDeleteIds == {1}

HistInit == InitFrom(HistImportPools)

\* One staged edit per tick: DesignerApp::update ends every tick with update_pool,
\* so a handler that stages an edit starts from a staged pool equal to the committed one.
Clean == project.mut_pool = project.pool

HistNext ==
    \/ Clean /\ CreateObject(MaxHistEdits)
    \/ Clean /\ DeleteObject(MaxHistEdits, HistDeleteIds)
    \/ UpdatePool
    \/ Undo
    \/ Redo

HistSpec == HistInit /\ [][HistNext]_vars

(***************************************************************************)
(* SelSpec: the selection history alone, deep enough to fill its undo stack *)
(***************************************************************************)
SelImportPools == { <<Obj(1, "DataMask"), Obj(2, "DataMask")>> }
SelIds == {1, 2}

SelInit == InitFrom(SelImportPools)

SelNext ==
    \/ SelectObject(MaxSelEdits, SelIds)
    \/ UpdateSelected
    \/ SetPreviousSelected
    \/ SetNextSelected

SelSpec == SelInit /\ [][SelNext]_vars

(***************************************************************************)
(* InfoSpec: the metadata table under listing, renaming and renumbering    *)
(***************************************************************************)
InfoImportPools == { <<Obj(10, "DataMask")>> }
InfoIds == {10, 20}

InfoInit == InitFrom(InfoImportPools)

InfoNext ==
    \/ RenderObjectList
    \/ RenameObject
    \/ SelectObject(MaxInfoEdits, InfoIds)
    \/ RenumberObject(MaxInfoEdits, InfoIds)
    \/ UpdatePool
    \/ UpdateSelected
    \/ Undo
    \/ Redo

InfoSpec == InfoInit /\ [][InfoNext]_vars

(***************************************************************************)
(* SchemaSpec: the relationship schema applied to every type and version   *)
(***************************************************************************)
SchemaInit == InitFrom({ <<>> })

SchemaNext == GetAllowedChildRefs

SchemaSpec == SchemaInit /\ [][SchemaNext]_vars

(***************************************************************************)
(* NameSpec: the naming engine on the files the application reads          *)
(***************************************************************************)
\* the kinds of object the pools of the files are made of
NameKinds ==
    { NamedObj(0, "Key", 0, 0), NamedObj(0, "Key", 8, 0),
      NamedObj(0, "Container", 0, 50), NamedObj(0, "Container", 0, 200),
      NamedObj(0, "DataMask", 0, 0) }

\* the pools of up to MaxNamePoolLen such objects, with the ids 1, 2, ..
NamePools ==
    UNION { { [i \in 1 .. n |-> [kinds[i] EXCEPT !.id = i]] :
                kinds \in [1 .. n -> NameKinds] } : n \in 0 .. MaxNamePoolLen }

\* the metadata of the project files: none, or an entry for object 1 with or
\* without a stored name
NameMetadatas ==
    { EmptyInfo, [i \in {1} |-> <<"Custom">>], [i \in {1} |-> <<>>] }

\* the application starts without a file read
NameInit == InitFrom({ <<>> })

\* one file is read per behaviour: what reading leaves does not depend on the
\* project it replaces
NameNext ==
    \/ op = "from" /\ ImportPool(NamePools)
    \/ op = "from" /\ LoadProject(NamePools, NameMetadatas)

NameSpec == NameInit /\ [][NameNext]_vars

(***************************************************************************)
(* MenuSpec: default names offered for new objects                         *)
(***************************************************************************)
MenuKinds ==
    { NamedObj(0, "DataMask", 0, 0), NamedObj(0, "Button", 8, 0),
      NamedObj(0, "Key", 8, 0) }

\* the pools of up to MaxMenuPoolLen such objects, with the ids 1, 2, ..
MenuPools ==
    UNION { { [i \in 1 .. n |-> [kinds[i] EXCEPT !.id = i]] :
                kinds \in [1 .. n -> MenuKinds] } : n \in 0 .. MaxMenuPoolLen }

\* the metadata of the project files: none, or a stored name for object 1
MenuMetadatas ==
    { EmptyInfo } \cup
    { [i \in {1} |-> <<name>>] : name \in {"Button", "Main Screen", "Key 2"} }

\* the types clicked in the "Add object" menu
MenuTypes == {"DataMask", "AlarmMask", "Button", "Key"}

\* a pool imported without smart naming
MenuInit == InitFrom(MenuPools)

MenuNext ==
    \/ op = "from" /\ LoadProject(MenuPools, MenuMetadatas)
    \/ op = "from" /\ ImportPool(MenuPools)
    \/ RenderObjectList
    \/ AddObjectMenu(MenuTypes)

MenuSpec == MenuInit /\ [][MenuNext]_vars

(***************************************************************************)
(* Properties                                                              *)
(*                                                                         *)
(* `op` names the handler that ran last, `before` is the project it started *)
(* from and `project` the project it left, so a property of one call is a  *)
(* state predicate over the three.                                         *)
(***************************************************************************)
Min(a, b) == IF a < b THEN a ELSE b

\* the n most recent entries of a stack, oldest first
MostRecent(s, n) == [i \in 1 .. n |-> s[Len(s) - n + i]]

PoolPart(p) ==
    <<p.pool, p.mut_pool, p.undo_pool_history, p.redo_pool_history>>

SelectionPart(p) ==
    <<p.selected_object, p.mut_selected_object,
      p.undo_selected_history, p.redo_selected_history>>

Dirty(p) == p.mut_pool # p.pool

\* C1: update_pool called with a staged pool that differs from the committed one
\* returns true, clears the redo stack, makes the committed pool equal to the staged
\* pool, and leaves on the undo stack the old committed pool on top of the most
\* recent earlier entries, at most MAX_UNDO_REDO_POOL in all.
C1_CommitEffect ==
    (op = "update_pool" /\ Dirty(before)) =>
        LET pushed == Append(before.undo_pool_history, before.pool)
            kept   == Min(Len(pushed), MAX_UNDO_REDO_POOL)
        IN  /\ ret.changed
            /\ project.redo_pool_history = <<>>
            /\ project.pool = before.mut_pool
            /\ project.mut_pool = before.mut_pool
            /\ Len(project.undo_pool_history) <= MAX_UNDO_REDO_POOL
            /\ project.undo_pool_history = MostRecent(pushed, kept)
            /\ project.undo_pool_history[kept] = before.pool

\* a commit that had to evict: the undo stack was full when update_pool started
C1_Witness ==
    /\ op = "update_pool"
    /\ Dirty(before)
    /\ Len(before.undo_pool_history) = MAX_UNDO_REDO_POOL
    /\ project.undo_pool_history # before.undo_pool_history

\* C2: right after an update_pool call, a second update_pool call (no staged edit
\* in between) returns false and leaves the whole project, both pools and both
\* stacks included, as it is.
C2_CommitIdempotent ==
    (op = "update_pool") =>
        LET second == update_pool(project)
        IN  /\ second.ret = FALSE
            /\ second.project = project

\* the first call changed history
C2_Witness ==
    /\ op = "update_pool"
    /\ ret.changed
    /\ project.undo_pool_history # <<>>

\* C3 as stated: after staged edits and commits (nothing to redo), undo followed
\* at once by redo restores the committed pool, the staged pool and both stacks.
C3_Original ==
    (op = "undo" /\ ~redo_available(before)) =>
        LET q == redo(project)
        IN  /\ q.pool = before.pool
            /\ q.mut_pool = before.mut_pool
            /\ q.undo_pool_history = before.undo_pool_history
            /\ q.redo_pool_history = before.redo_pool_history

\* C3 as amended: after staged edits and commits, undo followed at once by redo
\* restores the committed pool and both stacks; the staged pool then equals the
\* committed pool when the undo took effect, so it is the staged pool of before the
\* undo exactly when that one held no uncommitted edit.
C3_UndoRedoInverse ==
    (op = "undo" /\ ~redo_available(before)) =>
        LET q == redo(project)
        IN  /\ q.pool = before.pool
            /\ q.undo_pool_history = before.undo_pool_history
            /\ q.redo_pool_history = before.redo_pool_history
            /\ undo_available(before) => q.mut_pool = q.pool
            /\ ~undo_available(before) => q.mut_pool = before.mut_pool
            /\ (q.mut_pool = before.mut_pool) <=> (~undo_available(before) \/ ~Dirty(before))

\* an undo that took effect on a project holding an uncommitted staged edit
C3_Witness ==
    /\ op = "undo"
    /\ ~redo_available(before)
    /\ undo_available(before)
    /\ Dirty(before)
    /\ redo_available(project)

\* C4: after more than MAX_UNDO_REDO_POOL changing commits, each of the next
\* MAX_UNDO_REDO_POOL undos finds undo_available true and restores the pool its
\* commit replaced, the most recent first; after the last of them undo_available is
\* false: the older pools were evicted.  (In the linear part of a behaviour the
\* length of the redo stack is the number of undos made.)
C4_HistoryBound ==
    (commit_log.linear /\ Len(commit_log.commits) > MAX_UNDO_REDO_POOL) =>
        LET n == Len(commit_log.commits)
            k == Len(project.redo_pool_history)
        IN  /\ k <= MAX_UNDO_REDO_POOL
            /\ undo_available(project) <=> k < MAX_UNDO_REDO_POOL
            /\ Len(project.undo_pool_history) = MAX_UNDO_REDO_POOL - k
            /\ k >= 1 => project.pool = commit_log.commits[n - k + 1]
            /\ (op = "undo" /\ ~undo_available(before)) => k = MAX_UNDO_REDO_POOL

\* the tenth undo after more than ten commits has just run
C4_Witness ==
    /\ commit_log.linear
    /\ Len(commit_log.commits) > MAX_UNDO_REDO_POOL
    /\ op = "undo"
    /\ undo_available(before)
    /\ Len(project.redo_pool_history) = MAX_UNDO_REDO_POOL
    /\ ~undo_available(project)

\* C5: undo on a non-empty undo stack pops its top, pushes the committed pool onto
\* the redo stack and makes committed and staged pool both the popped snapshot; an
\* update_pool called right after returns false and changes neither stack.
C5_UndoEffect ==
    (op = "undo" /\ undo_available(before)) =>
        LET n     == Len(before.undo_pool_history)
            after == update_pool(project)
        IN  /\ project.undo_pool_history = SubSeq(before.undo_pool_history, 1, n - 1)
            /\ project.redo_pool_history = before.redo_pool_history \o <<before.pool>>
            /\ project.pool = before.undo_pool_history[n]
            /\ project.mut_pool = before.undo_pool_history[n]
            /\ after.ret = FALSE
            /\ after.project.undo_pool_history = project.undo_pool_history
            /\ after.project.redo_pool_history = project.redo_pool_history

\* an undo that overwrote a staged pool different from the snapshot it popped
C5_Witness ==
    /\ op = "undo"
    /\ undo_available(before)
    /\ before.mut_pool # project.mut_pool
    /\ Dirty(before)

\* C6: redo on a non-empty redo stack pops its top, pushes the committed pool onto
\* the undo stack and makes committed and staged pool both the popped snapshot; redo
\* on an empty redo stack and undo on an empty undo stack change nothing of the
\* project (pools, stacks, selection, allocator cursor).
C6_RedoEffect ==
    /\ (op = "redo" /\ redo_available(before)) =>
          LET n == Len(before.redo_pool_history)
          IN  /\ project.redo_pool_history = SubSeq(before.redo_pool_history, 1, n - 1)
              /\ project.undo_pool_history = before.undo_pool_history \o <<before.pool>>
              /\ project.pool = before.redo_pool_history[n]
              /\ project.mut_pool = before.redo_pool_history[n]
    /\ (op = "redo" /\ ~redo_available(before)) => project = before
    /\ (op = "undo" /\ ~undo_available(before)) => project = before

\* a redo that took effect
C6_Witness ==
    /\ op = "redo"
    /\ redo_available(before)
    /\ before.undo_pool_history # <<>>
    /\ project.pool # before.pool

\* C7: update_selected called with a staged selection that differs from the
\* committed one returns true, clears the selection redo stack and commits the
\* staged selection; the old selection is pushed onto the selection undo stack
\* (bounded to MAX_UNDO_REDO_SELECTED) when the new selection is not null, and the
\* stack is left as it is when the new selection is null.
C7_CommitSelection ==
    (op = "update_selected" /\ before.mut_selected_object # before.selected_object) =>
        LET pushed == Append(before.undo_selected_history, before.selected_object)
        IN  /\ ret.changed
            /\ project.redo_selected_history = <<>>
            /\ project.selected_object = before.mut_selected_object
            /\ project.mut_selected_object = before.mut_selected_object
            /\ before.mut_selected_object # NULL_ID =>
                   project.undo_selected_history =
                       MostRecent(pushed, Min(Len(pushed), MAX_UNDO_REDO_SELECTED))
            /\ before.mut_selected_object = NULL_ID =>
                   project.undo_selected_history = before.undo_selected_history

\* a deselection was committed: the selection changed, no history entry was added
C7_Witness ==
    /\ op = "update_selected"
    /\ before.selected_object # NULL_ID
    /\ before.mut_selected_object = NULL_ID
    /\ project.selected_object = NULL_ID
    /\ before.redo_selected_history # <<>>

\* C8: the selection undo stack never holds more than MAX_UNDO_REDO_SELECTED
\* entries; an update_selected that pushes onto a full stack evicts the oldest entry
\* and keeps the others in order below the pushed one.
C8_SelectionBound ==
    /\ Len(project.undo_selected_history) <= MAX_UNDO_REDO_SELECTED
    /\ ( /\ op = "update_selected"
         /\ ret.changed
         /\ project.selected_object # NULL_ID
         /\ Len(before.undo_selected_history) = MAX_UNDO_REDO_SELECTED ) =>
           project.undo_selected_history =
               Tail(before.undo_selected_history) \o <<before.selected_object>>

\* an update_selected that pushed onto a full selection undo stack
C8_Witness ==
    /\ op = "update_selected"
    /\ ret.changed
    /\ project.selected_object # NULL_ID
    /\ Len(before.undo_selected_history) = MAX_UNDO_REDO_SELECTED
    /\ Head(before.undo_selected_history) # Head(project.undo_selected_history)

\* C9: set_previous_selected / set_next_selected pop one selection stack, push the
\* committed selection onto the other and make committed and staged selection both
\* the popped value; update_selected and the two of them leave both pools and the
\* pool stacks alone, and update_pool, undo and redo leave both selections and the
\* selection stacks alone.
C9_SelectionHistory ==
    /\ (op = "set_previous_selected" /\ before.undo_selected_history # <<>>) =>
          LET n == Len(before.undo_selected_history)
          IN  /\ project.undo_selected_history = SubSeq(before.undo_selected_history, 1, n - 1)
              /\ project.redo_selected_history =
                     before.redo_selected_history \o <<before.selected_object>>
              /\ project.selected_object = before.undo_selected_history[n]
              /\ project.mut_selected_object = before.undo_selected_history[n]
    /\ (op = "set_next_selected" /\ before.redo_selected_history # <<>>) =>
          LET n == Len(before.redo_selected_history)
          IN  /\ project.redo_selected_history = SubSeq(before.redo_selected_history, 1, n - 1)
              /\ project.undo_selected_history =
                     before.undo_selected_history \o <<before.selected_object>>
              /\ project.selected_object = before.redo_selected_history[n]
              /\ project.mut_selected_object = before.redo_selected_history[n]
    /\ op \in {"update_selected", "set_previous_selected", "set_next_selected"} =>
          PoolPart(project) = PoolPart(before)
    /\ op \in {"update_pool", "undo", "redo"} =>
          SelectionPart(project) = SelectionPart(before)

\* a selection undo that took effect, over a staged selection that differed from
\* the popped value, while the pool has a history and an uncommitted edit of its own
C9_Witness ==
    /\ op = "set_previous_selected"
    /\ before.undo_selected_history # <<>>
    /\ before.mut_selected_object # project.mut_selected_object
    /\ project.undo_pool_history # <<>>

\* C10: the id allocate_object_id returns is not the id of any object of the pool it
\* looks ids up in (the committed pool) at the time of the call.
C10_AllocatedIdIsFree ==
    (op = "create" /\ status = "running") =>
        ~HasObject(before.pool, ret.id)

\* an allocation whose cursor pointed at an id in use, so the loop had to move on
C10_Witness ==
    /\ op = "create"
    /\ status = "running"
    /\ HasObject(before.pool, ObjectIdOrDefault(before.next_available_id))

\* C11: after an allocation and the insertion of an object with the allocated id
\* (the "Create" handler), a second allocate_object_id call that returns does not
\* return that id again, whatever the cursor was, the top of the range included.
C11_SecondAllocationDiffers ==
    (op = "create" /\ status = "running") =>
        LET second == allocate_object_id(project)
        IN  second.outcome = "ok" => second.id # ret.id

\* C12: every id allocate_object_id returns lies in 1 .. 65534: it is neither 0
\* nor the reserved NULL value 65535.
C12_AllocatedIdInRange ==
    (op = "create" /\ status = "running") =>
        (ret.id >= 1 /\ ret.id <= U16_MAX - 1)

\* some id of 1 .. 65534 is the id of no object of the pool; the lowest such id
HasFreeId(pool) == \E i \in 1 .. U16_MAX - 1 : ~HasObject(pool, i)

LowestFreeId(pool) ==
    CHOOSE i \in 1 .. U16_MAX - 1 :
        ~HasObject(pool, i) /\ \A j \in 1 .. i - 1 : HasObject(pool, j)

\* C13: an allocation started with the cursor past the top of the id range (at
\* 65535, whose lookup finds the object with id 0) while some id of 1 .. 65534 is
\* unused returns, and returns the lowest such id.
C13_WraparoundFindsGap ==
    (/\ op = "create"
     /\ before.next_available_id = U16_MAX
     /\ HasObject(before.pool, ObjectIdOrDefault(U16_MAX))
     /\ HasFreeId(before.pool)) =>
        /\ status = "running"
        /\ ret.id = LowestFreeId(before.pool)

\* C14: allocate_object_id always ends: it returns an id or panics with "No
\* available ObjectId"; it is never left in a loop that cannot end.
C14_AllocateTerminates == status # "hung"

\* C15 as stated: after every undo, redo and load, the cursor is the maximum id of
\* the committed pool plus one (1 for an empty pool).
C15_Original ==
    op \in {"undo", "redo", "from"} =>
        project.next_available_id = MaxObjectId(project.pool) + 1

\* C15: after every load, every undo started with a non-empty undo stack and every
\* redo started with a non-empty redo stack, the cursor is the maximum id of the
\* committed pool plus one (1 for an empty pool), whatever it was before; an undo
\* or redo started with an empty stack leaves the cursor as it was.
C15_CursorResync ==
    /\ (\/ op = "from"
        \/ op = "undo" /\ before.undo_pool_history # <<>>
        \/ op = "redo" /\ before.redo_pool_history # <<>>) =>
          project.next_available_id = MaxObjectId(project.pool) + 1
    /\ (\/ op = "undo" /\ before.undo_pool_history = <<>>
        \/ op = "redo" /\ before.redo_pool_history = <<>>) =>
          project.next_available_id = before.next_available_id

\* an undo that took effect and moved the cursor back from where allocations left it
C15_Witness ==
    /\ op = "undo"
    /\ before.undo_pool_history # <<>>
    /\ before.next_available_id # project.next_available_id
    /\ project.next_available_id = MaxObjectId(project.pool) + 1

\* C16: the committed pool never holds two objects with the same id, whatever the
\* handlers of a tick (creation, the id editor, commit, undo, redo) did.
C16_CommittedIdsUnique ==
    Cardinality(PoolIds(project.pool)) = Len(project.pool)

\* C17: when the id editor renumbers an object that has metadata (unique id and
\* name), get_object_info for the object under its new id returns that metadata,
\* and the table has no entry left under the old id.
C17_RenumberKeepsInfo ==
    (/\ op = "renumber"
     /\ project.mut_pool # before.mut_pool
     /\ before.selected_object \in DOMAIN before.object_info
     /\ before.object_info[before.selected_object].name # <<>>) =>
        LET old_id == before.selected_object
            i      == FirstIndexOf(before.mut_pool, old_id)
            after  == get_object_info(project, project.mut_pool[i])
        IN  /\ after.info = before.object_info[old_id]
            /\ old_id \notin DOMAIN after.project.object_info

\* the set of the elements of a list
\* C18: for every type T and VT versions V1 <= V2, every child type allowed for T
\* at V1 is allowed for T at V2.
C18_SchemaMonotonic ==
    (op = "get_allowed_child_refs") =>
        \A v1 \in VtVersions :
            v1 <= ret.version =>
                Range(AllowedChildRefs(ret.obj_type, v1)) \subseteq Range(ret.allowed)

\* a rule that grew: DataMask at version 6 allows a type it did not allow at version 2
C18_Witness ==
    /\ op = "get_allowed_child_refs"
    /\ ret.obj_type = "DataMask"
    /\ ret.version = 6
    /\ Range(AllowedChildRefs("DataMask", 2)) # Range(ret.allowed)
    /\ Range(AllowedChildRefs("DataMask", 2)) # {}

\* C19: at every VT version Container has the children list of DataMask, Button
\* that of Key and OutputList that of WindowMask.
C19_DelegatingRules ==
    (op = "get_allowed_child_refs") =>
        /\ ret.obj_type = "Container" =>
              ret.allowed = get_allowed_child_refs("DataMask", ret.version)
        /\ ret.obj_type = "Button" =>
              ret.allowed = get_allowed_child_refs("Key", ret.version)
        /\ ret.obj_type = "OutputList" =>
              ret.allowed = get_allowed_child_refs("WindowMask", ret.version)

\* a delegated rule with children: OutputList asked at a version WindowMask has a rule for
C19_Witness ==
    /\ op = "get_allowed_child_refs"
    /\ ret.obj_type = "OutputList"
    /\ ret.version >= 4
    /\ ret.allowed # <<>>

\* the name render_selectable_object displays for an object
DisplayedName(p, object) == get_name(get_object_info(p, object).info, object)

\* C20: after the naming engine ran over the objects of a pool (batch naming on
\* import, per-object naming on project load), no two objects of the pool have
\* the same displayed name.
C20_NamesUnique ==
    (op \in {"apply_smart_naming_to_objects", "load_project"}) =>
        \A i, j \in DOMAIN project.pool :
            i # j => DisplayedName(project, project.pool[i])
                        # DisplayedName(project, project.pool[j])

\* the pool of the import is two DataMask objects and nothing else
TwoDataMasks(pool) ==
    Len(pool) = 2 /\ pool[1].type = "DataMask" /\ pool[2].type = "DataMask"

\* C21: when a pool of two DataMask objects without custom names is imported, the
\* naming engine names the first "Main Screen" and the second with a different
\* name, not "Data Screen" for both.
C21_TwoDataMasksNamed ==
    (op = "apply_smart_naming_to_objects" /\ TwoDataMasks(project.pool)) =>
        /\ DisplayedName(project, project.pool[1]) = "Main Screen"
        /\ DisplayedName(project, project.pool[2]) # "Main Screen"
        /\ ~(/\ DisplayedName(project, project.pool[1]) = "Data Screen"
             /\ DisplayedName(project, project.pool[2]) = "Data Screen")

\* the base label generate_smart_default_name is to use for a new object of a type
BaseLabel(object_type, pool) ==
    IF object_type = "DataMask"
    THEN IF \E i \in DOMAIN pool : pool[i].type = "DataMask"
         THEN "Data Screen" ELSE "Main Screen"
    ELSE get_object_type_name(object_type)

\* C22: the default name generated for a new object is not a name the existing
\* objects display; when the base label is taken or the pool has an object of the
\* type already, the name is the base label with a numeric suffix.
C22_DefaultNameIsNew ==
    (op = "generate_smart_name_for_new_object") =>
        LET existing_names == get_all_object_names(project).names
            base_name == BaseLabel(ret.object_type, project.pool)
        IN  /\ NamesCount(existing_names, ret.name) = 0
            /\ (\/ NamesCount(existing_names, base_name) > 0
                \/ \E i \in DOMAIN project.pool : project.pool[i].type = ret.object_type) =>
                  \E k \in 1 .. 2 * Len(project.pool) + 1 :
                      ret.name = base_name \o " " \o ToString(k)

\* the multiset of the names displayed for the objects i.. on of the committed pool
RECURSIVE DisplayedNames(_, _)
DisplayedNames(p, i) ==
    IF i > Len(p.pool) THEN <<>>
    ELSE NamesAdd(DisplayedNames(p, i + 1), DisplayedName(p, p.pool[i]))

\* C24: the names a new default name is checked against are exactly the multiset
\* of the names displayed for the objects of the pool: the explicit name if set,
\* else the "{id}: {type}" fallback of get_name.
C24_CheckedAgainstDisplayedNames ==
    (op = "generate_smart_name_for_new_object") =>
        get_all_object_names(project).names = DisplayedNames(project, 1)

\* the object was named by generate_smart_default_name when the file was read: it
\* had no stored name and no contextual name
SmartNamed(object) ==
    /\ generate_contextual_name(object) = <<>>
    /\ ~(object.id \in DOMAIN ret.metadata /\ ret.metadata[object.id] # <<>>)

\* C23: after batch naming (import) and after one-at-a-time naming (project load)
\* alike, the name of an object that received a smart default name differs from
\* the displayed name of every other object of the pool.
C23_SmartNamesDistinct ==
    (op \in {"apply_smart_naming_to_objects", "load_project"}) =>
        \A i, j \in DOMAIN project.pool :
            (i # j /\ SmartNamed(project.pool[i])) =>
                DisplayedName(project, project.pool[i])
                    # DisplayedName(project, project.pool[j])

\* a batch that named two objects of one type by default names, next to an object
\* with a contextual name
C23_Witness ==
    /\ op = "apply_smart_naming_to_objects"
    /\ \E i, j, k \in DOMAIN project.pool :
          /\ i # j
          /\ project.pool[i].type = project.pool[j].type
          /\ SmartNamed(project.pool[i])
          /\ SmartNamed(project.pool[j])
          /\ generate_contextual_name(project.pool[k]) # <<>>

(***************************************************************************)
(* The editor on pools whose objects refer to each other                   *)
(***************************************************************************)
MaxGraphEdits == 2
MaxOpenDepth == 2

\* the ids of the objects of the pools below; Missing is the id of no object
GraphIds ==
    [WorkingSet |-> 0, DataMask |-> 5, Container |-> 6, ObjectPointer |-> 7, Missing |-> 9]

\* imported pools: a data mask with id 5, with or without a working set, a
\* container and an object pointer; references that resolve, that dangle, and
\* that lead back to the object they start from
GraphPools ==
    LET ws == WorkingSetObj(GraphIds.WorkingSet, GraphIds.DataMask, <<>>)
    IN  { <<DataMaskObj(GraphIds.DataMask, <<>>)>>,
          <<DataMaskObj(GraphIds.DataMask, <<GraphIds.Container>>),
            ContainerObj(GraphIds.Container, FALSE, <<GraphIds.Missing>>)>>,
          <<ws, DataMaskObj(GraphIds.DataMask, <<GraphIds.Container>>),
            ContainerObj(GraphIds.Container, FALSE, <<>>)>>,
          <<ws, DataMaskObj(GraphIds.DataMask, <<GraphIds.Missing, GraphIds.Container>>),
            ContainerObj(GraphIds.Container, FALSE, <<GraphIds.ObjectPointer>>),
            ObjectPointerObj(GraphIds.ObjectPointer, GraphIds.Missing)>>,
          <<WorkingSetObj(GraphIds.WorkingSet, GraphIds.DataMask, <<GraphIds.Container>>),
            DataMaskObj(GraphIds.DataMask, <<GraphIds.ObjectPointer>>),
            ContainerObj(GraphIds.Container, TRUE, <<GraphIds.Missing>>),
            ObjectPointerObj(GraphIds.ObjectPointer, NULL_ID)>>,
          <<ws, DataMaskObj(GraphIds.DataMask, <<GraphIds.Container>>),
            ContainerObj(GraphIds.Container, FALSE, <<GraphIds.Container>>)>>,
          <<ws, DataMaskObj(GraphIds.DataMask, <<GraphIds.Container>>),
            ContainerObj(GraphIds.Container, TRUE, <<GraphIds.Container>>)>>,
          <<ws, DataMaskObj(GraphIds.DataMask, <<GraphIds.Container>>),
            ContainerObj(GraphIds.Container, FALSE, <<GraphIds.ObjectPointer>>),
            ObjectPointerObj(GraphIds.ObjectPointer, GraphIds.Container)>> }

GraphInit == InitFrom(GraphPools)

LeftPanel(maxEdits, kinds) ==
    /\ \E open_depth \in 0 .. MaxOpenDepth, input \in LeftPanelInputs(project) :
         /\ input.kind \in kinds
         /\ input.kind # "none" => nEdits < maxEdits
         /\ LET l == left_panel(project, open_depth, input)
            IN  ShowedPanel("left_panel",
                            [project |-> l.project, overflow |-> FALSE,
                             labels |-> l.labels],
                            [open_depth |-> open_depth, left |-> input])
         /\ nEdits' = IF input.kind # "none" THEN nEdits + 1 ELSE nEdits

CentralPanel(maxEdits) ==
    /\ \E pointer \in {"away", "hover", "click"}, hit \in SUBSET PoolIds(project.pool) :
         /\ pointer = "away" => hit = {}
         /\ pointer = "click" => nEdits < maxEdits
         /\ ShowedPanel("central_panel", central_panel(project, pointer, hit),
                        [pointer |-> pointer, hit |-> hit])
         /\ nEdits' = IF pointer = "click" THEN nEdits + 1 ELSE nEdits

ParametersPanel ==
    /\ ShowedPanel("parameters_panel", parameters_panel(project, NoPanelInput), <<>>)
    /\ UNCHANGED nEdits

GraphNext ==
    \/ DeleteObject(MaxGraphEdits, PoolIds(project.pool))
    \/ SelectObject(MaxGraphEdits, PoolIds(project.pool))
    \/ UpdatePool
    \/ UpdateSelected
    \/ LeftPanel(MaxGraphEdits, {"none"})
    \/ CentralPanel(MaxGraphEdits)
    \/ ParametersPanel

GraphSpec == GraphInit /\ [][GraphNext]_vars

(***************************************************************************)
(* Properties of the object graph                                          *)
(***************************************************************************)
\* the ids an object makes its readers look up
RefSet(pool, id) ==
    IF HasObject(pool, id)
    THEN LET refs == referenced_objects(object_by_id(pool, id))
         IN  {refs[k] : k \in DOMAIN refs}
    ELSE {}

\* the ids reached from the ids of S by following references
RECURSIVE ReachableFrom(_, _)
ReachableFrom(pool, S) ==
    LET n == S \cup UNION {RefSet(pool, i) : i \in S}
    IN  IF n = S THEN S ELSE ReachableFrom(pool, n)

\* some object of the pool is reached from its own references
HasCycle(pool) ==
    \E i \in PoolIds(pool) : i \in ReachableFrom(pool, RefSet(pool, i))

\* the references of the object that its readers resolve and the pool does not
Dangling(pool, object) ==
    LET looked_up == IF object.type = "ObjectPointer"
                     THEN {object.value} \ {NULL_ID}
                     ELSE IF "object_refs" \in DOMAIN object
                     THEN {object.object_refs[k] : k \in DOMAIN object.object_refs}
                     ELSE {}
    IN  {id \in looked_up : ~HasObject(pool, id)}

HasLabel(labels, markers) == \E k \in DOMAIN labels : labels[k] \in markers

PanelOps == {"left_panel", "central_panel", "parameters_panel"}

TraversalOps == PanelOps \cup {"update_selected"}

\* C27: the traversals of the object graph (hierarchy view, update of the
\* hierarchy headers on a new selection, hit-testing, rendering of child
\* references) terminate on every pool, pools with reference cycles included.
C27_TraversalsTerminate ==
    (op \in TraversalOps) => status = "running"

\* the pool has the data mask with id 5 and no working set
DataMaskOnly(pool) ==
    /\ \E i \in DOMAIN pool : pool[i].id = GraphIds.DataMask /\ pool[i].type = "DataMask"
    /\ \A i \in DOMAIN pool : pool[i].type # "WorkingSet"

\* C28: on a pool imported with a DataMask of id 5 and no WorkingSet, the project
\* is created, working_set_object() returns none, the hierarchy view shows the
\* "no working set" label and nothing else without failing, and staged edits of
\* that project commit as they do for any other.
C28_NoWorkingSetReported ==
    /\ (op = "from" /\ DataMaskOnly(project.pool)) =>
          /\ status = "running"
          /\ project.mut_pool = project.pool
          /\ working_set_object(project.pool) = <<>>
    /\ (op = "left_panel" /\ DataMaskOnly(before.pool)) =>
          /\ status = "running"
          /\ ret.labels = <<NoWorkingSet>>
    /\ (op = "update_pool" /\ DataMaskOnly(before.pool) /\ Dirty(before)) =>
          /\ status = "running"
          /\ ret.changed
          /\ project.pool = before.mut_pool

\* the hierarchy view of the pool that holds only DataMask 5
C28_Witness ==
    /\ op = "left_panel"
    /\ before.pool = <<DataMaskObj(GraphIds.DataMask, <<>>)>>
    /\ ret.labels = <<NoWorkingSet>>

\* an edit of a project without working set was committed
C28_WitnessEdited ==
    /\ op = "update_pool"
    /\ DataMaskOnly(before.pool)
    /\ ret.changed

(***************************************************************************)
(* MetaSpec: object metadata under renames, creation, history and the      *)
(* reading of project files                                                *)
(***************************************************************************)
MaxMetaEdits == 2

\* A project file as the bytes read from disk decode: parses tells whether
\* ProjectFile::from_bytes accepts them, pool_loads whether the pool they hold
\* decodes, and the rest is what the file holds when they do.
ProjectData(parses, pool_loads, pool, metadata, mask_size, last_selected) ==
    [ parses |-> parses, pool_loads |-> pool_loads, pool |-> pool,
      metadata |-> metadata, mask_size |-> mask_size,
      last_selected |-> last_selected ]

\* ProjectFile::from_bytes as a Result: the file, or the error of the decoder
ProjectFile_from_bytes(data) ==
    IF data.parses THEN [ok |-> TRUE, file |-> data]
    ELSE [ok |-> FALSE, error |-> "invalid project file"]

\* ProjectFile::load_pool as a Result
ProjectFile_load_pool(file) ==
    IF file.pool_loads THEN [ok |-> TRUE, pool |-> file.pool]
    ELSE [ok |-> FALSE, error |-> "invalid object pool"]

\* EditorProject::load_project(data) as a Result: the project built from the
\* file, or the labelled error of the step that failed
load_project_data(data) ==
    LET parsed == ProjectFile_from_bytes(data)
    IN  IF ~parsed.ok
        THEN [ok |-> FALSE, error |-> "Failed to parse project file: " \o parsed.error]
        ELSE LET loaded == ProjectFile_load_pool(parsed.file)
             IN  IF ~loaded.ok THEN [ok |-> FALSE, error |-> loaded.error]
                 ELSE [ ok |-> TRUE, error |-> "",
                        project |-> load_project(loaded.pool, parsed.file.metadata,
                                                 parsed.file.mask_size,
                                                 parsed.file.last_selected) ]

\* mutation of handle_file_loaded: a failed load leaves an empty project
handle_file_loaded_DropProject(p, data) ==
    LET r == load_project_data(data)
    IN  IF r.ok THEN r.project ELSE FromPool(<<>>)

\* DesignerApp::handle_file_loaded, FileDialogReason::LoadProject: the project
\* of the application afterwards; an error is logged and nothing else
handle_file_loaded(p, data) ==
    LET r == load_project_data(data)
    IN  IF r.ok THEN r.project ELSE p

\* the names typed into the text field of a rename
MetaNames == {"", "Custom", "Label"}

\* the project files read: bytes that do not parse, a pool that does not load,
\* and a file whose object 10 has an empty stored name, saved with either mask size
MetaFiles ==
    { ProjectData(FALSE, FALSE, <<>>, EmptyInfo, 100, NULL_ID),
      ProjectData(TRUE, FALSE, <<>>, EmptyInfo, 100, NULL_ID) }
        \cup { ProjectData(TRUE, TRUE, <<Obj(10, "DataMask")>>,
                           [i \in {10} |-> <<"">>], mask_size, 10) :
                   mask_size \in MaskSizes }

MetaInit == InitFrom(InfoImportPools)

\* render_selectable_object, the text field of the object being renamed loses
\* focus with one of `names` typed
FinishRenaming(names) ==
    /\ \E i \in DOMAIN project.pool, name \in names, cancelled \in BOOLEAN :
         Ran("rename", rename_object(project, project.pool[i], name, cancelled),
             [ changed |-> FALSE, id |-> project.pool[i].id,
               name |-> name, cancelled |-> cancelled ])
    /\ UNCHANGED nEdits

LoadProjectFile(files) ==
    /\ \E data \in files :
         LET r == load_project_data(data)
         IN  Ran("handle_file_loaded", handle_file_loaded(project, data),
                 [changed |-> FALSE, id |-> NULL_ID, ok |-> r.ok, error |-> r.error])
    /\ UNCHANGED nEdits

MaskSizeSlider(sizes) ==
    \E size \in sizes \ {project.mask_size} :
        Ran("set_mask_size", [project EXCEPT !.mask_size = size], NoRet)

SetMaskSize(sizes) == MaskSizeSlider(sizes) /\ UNCHANGED nEdits

MetaNext ==
    \/ SetMaskSize(MaskSizes)
    \/ CreateObject(MaxMetaEdits)
    \/ DeleteObject(MaxMetaEdits, PoolIds(project.pool))
    \/ RenderObjectList
    \/ FinishRenaming(MetaNames)
    \/ UpdatePool
    \/ Undo
    \/ Redo
    \/ LoadProjectFile(MetaFiles)

MetaSpec == MetaInit /\ [][MetaNext]_vars

\* C26: a project file that fails to decode yields an error with a label and
\* leaves the project of the application (pools, selection, history stacks,
\* metadata, allocator cursor) exactly as it was.
C26_FailedLoadKeepsProject ==
    (op = "handle_file_loaded" /\ ~ret.ok) =>
        /\ status = "running"
        /\ ret.error # ""
        /\ project = before

\* a failed load over a project with history and metadata
C26_Witness ==
    /\ op = "handle_file_loaded"
    /\ ~ret.ok
    /\ before.undo_pool_history # <<>>
    /\ DOMAIN before.object_info # {}
    /\ before.pool # <<>>

\* C29: set_name with the empty string leaves the stored name, set or unset, and
\* the unique id as they are; set_name with a non-empty string keeps the unique id
\* and makes get_name return exactly that string.  Checked on every entry of the
\* table and on the entry a rename stored into.
C29_SetNameIgnoresEmpty ==
    /\ \A id \in DOMAIN project.object_info, object \in Range(project.pool) :
          LET info == project.object_info[id]
          IN  /\ set_name(info, "") = info
              /\ \A name \in MetaNames \ {""} :
                    /\ get_name(set_name(info, name), object) = name
                    /\ set_name(info, name).unique_id = info.unique_id
    /\ (op = "rename" /\ ~ret.cancelled) =>
          LET was == get_object_info(before, object_by_id(before.pool, ret.id)).info
              now == project.object_info[ret.id]
          IN  /\ now.unique_id = was.unique_id
              /\ IF ret.name = "" THEN now.name = was.name
                 ELSE get_name(now, object_by_id(before.pool, ret.id)) = ret.name

\* an empty name was typed over a stored name, and the rename was not cancelled
C29_Witness ==
    /\ op = "rename"
    /\ ~ret.cancelled
    /\ ret.name = ""
    /\ ret.id \in DOMAIN before.object_info
    /\ before.object_info[ret.id].name # <<>>
    /\ project.object_info[ret.id].name = before.object_info[ret.id].name

\* the unique ids the table of the project holds
UniqueIds(p) == {p.object_info[i].unique_id : i \in DOMAIN p.object_info}

\* C30: an object keeps the unique id it got when it was first looked up, over
\* renames, commits, undo and redo; no two entries of the table hold the same
\* unique id; and an object that is created gets a unique id no earlier object had.
C30_IdentityStable ==
    /\ (op \in {"rename", "render", "update_pool", "undo", "redo", "delete", "create"}) =>
          \A id \in DOMAIN before.object_info :
              /\ id \in DOMAIN project.object_info
              /\ project.object_info[id].unique_id = before.object_info[id].unique_id
    /\ \A i, j \in DOMAIN project.object_info :
          i # j => project.object_info[i].unique_id # project.object_info[j].unique_id
    /\ (op = "create" /\ status = "running") =>
          project.object_info[ret.id].unique_id \notin UniqueIds(before)

(***************************************************************************)
(* BoundSpec: both histories filled to their bounds.  Pool handlers leave  *)
(* the selection part of the project alone and selection handlers the pool *)
(* part, so a behaviour either edits the pool or changes the selection.    *)
(***************************************************************************)
MaxBoundEdits == 22
BoundPoolLen == 12

\* the imported pool: BoundPoolLen data masks with the ids 1, 2, ..
BoundImportPools == { [i \in 1 .. BoundPoolLen |-> Obj(i, "DataMask")] }

PoolUntouched ==
    PoolPart(project) = <<project.pool, project.pool, <<>>, <<>>>>

SelectionUntouched ==
    SelectionPart(project) = <<NULL_ID, NULL_ID, <<>>, <<>>>>

\* the pool is edited by deleting its first object, one delete per commit;
\* the selection moves between the last two objects of the pool
BoundNext ==
    \/ /\ SelectionUntouched
       /\ Clean
       /\ project.pool # <<>>
       /\ DeleteObject(MaxBoundEdits, {project.pool[1].id})
    \/ SelectionUntouched /\ UpdatePool
    \/ SelectionUntouched /\ Undo
    \/ SelectionUntouched /\ Redo
    \/ PoolUntouched /\ SelectObject(MaxBoundEdits, {BoundPoolLen - 1, BoundPoolLen})
    \/ PoolUntouched /\ UpdateSelected
    \/ PoolUntouched /\ SetPreviousSelected
    \/ PoolUntouched /\ SetNextSelected

BoundSpec == InitFrom(BoundImportPools) /\ [][BoundNext]_vars

\* C31: the pool undo and redo stacks together hold at most MAX_UNDO_REDO_POOL
\* snapshots and the selection undo and redo stacks together at most
\* MAX_UNDO_REDO_SELECTED entries, in every state.
C31_HistoriesBoundedTogether ==
    /\ Len(project.undo_pool_history) + Len(project.redo_pool_history)
           <= MAX_UNDO_REDO_POOL
    /\ Len(project.undo_selected_history) + Len(project.redo_selected_history)
           <= MAX_UNDO_REDO_SELECTED

\* an undo took a snapshot from the full undo stack to the redo stack
C31_Witness ==
    /\ op = "undo"
    /\ Len(before.undo_pool_history) = MAX_UNDO_REDO_POOL
    /\ project.redo_pool_history # <<>>
    /\ Len(project.undo_pool_history) + Len(project.redo_pool_history)
           = MAX_UNDO_REDO_POOL

\* set_previous_selected took an entry from the full selection undo stack
C31_WitnessSelection ==
    /\ op = "set_previous_selected"
    /\ Len(before.undo_selected_history) = MAX_UNDO_REDO_SELECTED
    /\ Len(project.undo_selected_history) + Len(project.redo_selected_history)
           = MAX_UNDO_REDO_SELECTED

\* the committed pools a project can return to, oldest first: the undo stack,
\* the committed pool, the redo stack from its top
RECURSIVE Reverse(_)
Reverse(s) == IF s = <<>> THEN <<>> ELSE Append(Reverse(Tail(s)), Head(s))

Timeline(p) == p.undo_pool_history \o <<p.pool>> \o Reverse(p.redo_pool_history)

InTimeline(pool, p) == \E i \in DOMAIN Timeline(p) : Timeline(p)[i] = pool

\* undo or redo was called with a staged edit and had a snapshot to restore
UndoOverStagedEdit ==
    /\ op = "undo"
    /\ before.mut_pool # before.pool
    /\ before.undo_pool_history # <<>>

RedoOverStagedEdit ==
    /\ op = "redo"
    /\ before.mut_pool # before.pool
    /\ before.redo_pool_history # <<>>

\* C32 as worded: undo or redo over a staged pool that differs from the
\* committed pool overwrites the staged pool with the popped snapshot, and the
\* staged pool is afterwards neither the committed pool nor on either stack.
C32_Original ==
    /\ UndoOverStagedEdit => project.mut_pool = Top(before.undo_pool_history)
    /\ RedoOverStagedEdit => project.mut_pool = Top(before.redo_pool_history)
    /\ (UndoOverStagedEdit \/ RedoOverStagedEdit) =>
           /\ project.mut_pool # before.mut_pool
           /\ ~InTimeline(before.mut_pool, project)

\* C32: undo or redo performed while the staged pool differs from the committed
\* pool overwrites the staged pool with the popped snapshot; the staged pool is
\* stored nowhere: the committed pool and the two stacks hold the snapshots they
\* held before, so a staged pool that was none of them is none of them
\* afterwards, and one that equalled a snapshot is still found there.
C32_StagedEditDiscarded ==
    /\ UndoOverStagedEdit =>
           /\ project.mut_pool = Top(before.undo_pool_history)
           /\ project.pool = project.mut_pool
    /\ RedoOverStagedEdit =>
           /\ project.mut_pool = Top(before.redo_pool_history)
           /\ project.pool = project.mut_pool
    /\ (UndoOverStagedEdit \/ RedoOverStagedEdit) =>
           /\ Timeline(project) = Timeline(before)
           /\ InTimeline(before.mut_pool, project) = InTimeline(before.mut_pool, before)

\* an undo discarded a staged pool that was no snapshot of the history
C32_Witness ==
    /\ UndoOverStagedEdit
    /\ ~InTimeline(before.mut_pool, before)
    /\ project.mut_pool # before.mut_pool

\* a redo over a staged pool that equalled the snapshot it restored: the staged
\* pool is the committed pool afterwards
C32_WitnessSnapshot ==
    /\ RedoOverStagedEdit
    /\ before.mut_pool = Top(before.redo_pool_history)
    /\ project.pool = before.mut_pool

\* the same for redo
C32_WitnessRedo ==
    /\ RedoOverStagedEdit
    /\ ~InTimeline(before.mut_pool, before)
    /\ project.mut_pool # before.mut_pool

\* the pass of DesignerApp::update is over: update_selected has run
TickEnded == op = "update_selected"

\* C33: at the end of every tick, after update_pool and update_selected, the
\* staged pool equals the committed pool and the staged selection equals the
\* committed selection, whatever ran earlier in the tick.
C33_TickEndsClean ==
    TickEnded =>
        /\ project.mut_pool = project.pool
        /\ project.mut_selected_object = project.selected_object

\* a tick ended in which update_selected adopted a staged selection after
\* update_pool had committed a staged pool on top of an earlier commit
C33_Witness ==
    /\ TickEnded
    /\ ret.changed
    /\ before.selected_object # project.selected_object
    /\ Len(project.undo_pool_history) >= 2

(***************************************************************************)
(* ChannelSpec: the file dialogs of the File menu.  Each dialog runs as a   *)
(* task of its own (execute: a thread, or a local future on wasm32) and     *)
(* sends the bytes of the picked file on file_channel; the UI thread keeps  *)
(* running and polls the channel at the start of every tick.                *)
(***************************************************************************)
MaxFileRequests == 3

\* the reasons the File menu opens a dialog with: "Import IOP (.iop)" and
\* "Open Project (.aitp)"
FileDialogReasons == {"LoadPool", "LoadProject"}

\* the bytes of a file: `iop` is the pool ObjectPool::from_iop reads from them,
\* `data` what ProjectFile::from_bytes and load_pool make of them
IopFile(pool) ==
    [ iop |-> pool, data |-> ProjectData(FALSE, FALSE, <<>>, EmptyInfo, 100, NULL_ID) ]

ProjectFileBytes(pool, metadata, mask_size, last_selected) ==
    [ iop |-> <<>>,
      data |-> ProjectData(TRUE, TRUE, pool, metadata, mask_size, last_selected) ]

ObjectPool_from_iop(content) == content.iop

\* the files the user picks: a pool file and a project file
ChannelFiles ==
    { IopFile(<<Obj(1, "DataMask")>>),
      ProjectFileBytes(<<Obj(10, "DataMask")>>, [i \in {10} |-> <<"Custom">>], 480, 10) }

\* DesignerApp::open_file_dialog: the reason is stored, replacing the one of an
\* earlier request, and a task is started that holds nothing but the sender.
\* The reason kept with a task and with the bytes it sends is not in the program:
\* it records which request they belong to.
open_file_dialog(a, reason) ==
    [a EXCEPT !.file_dialog_reason = <<reason>>,
              !.tasks = Append(@, [request |-> reason]),
              !.requests = @ + 1]

RemoveAt(s, i) == SubSeq(s, 1, i - 1) \o SubSeq(s, i + 1, Len(s))

\* the task of open_file_dialog runs to its end: `picked` is the file chosen, or
\* empty when the dialog was dismissed and nothing is sent
dialog_task(a, i, picked) ==
    [a EXCEPT !.tasks = RemoveAt(@, i),
              !.file_channel =
                  IF picked = <<>> THEN @
                  ELSE Append(@, [content |-> picked[1], request |-> a.tasks[i].request])]

\* DesignerApp::handle_file_loaded with bytes waiting in the channel: they are
\* taken and dispatched on the reason stored in the application; an imported
\* pool is named only while "Apply smart naming on import" is ticked
handle_file_loaded_from_channel(a, p) ==
    LET content == Head(a.file_channel).content
        taken == [a EXCEPT !.file_channel = Tail(@)]
    IN  CASE a.file_dialog_reason = <<"LoadPool">> ->
                 LET imported == FromPool(ObjectPool_from_iop(content))
                 IN  [ app |-> [taken EXCEPT !.loaded = TRUE],
                       project |->
                           IF a.apply_smart_naming_on_import
                           THEN apply_smart_naming_to_objects(imported, imported.pool)
                           ELSE imported ]
          [] a.file_dialog_reason = <<"LoadProject">> ->
                 [ app |-> [taken EXCEPT !.loaded = @ \/ load_project_data(content.data).ok],
                   project |-> handle_file_loaded(p, content.data) ]
          [] OTHER -> [app |-> taken, project |-> p]

ChannelInit ==
    /\ project = FromPool(<<>>)
    /\ status = "running"
    /\ op = "new"
    /\ ret = NoRet
    /\ before = project
    /\ nEdits = 0
    /\ commit_log = [linear |-> TRUE, commits |-> <<>>]
    /\ app = NewApp(FALSE)

\* a click on "Import IOP (.iop)" or "Open Project (.aitp)"
FileMenuItem(reasons) ==
    /\ status = "running"
    /\ app.requests < MaxFileRequests
    /\ \E reason \in reasons :
         /\ app' = open_file_dialog(app, reason)
         /\ op' = "open_file_dialog"
         /\ ret' = [changed |-> FALSE, id |-> NULL_ID, reason |-> reason]
    /\ before' = project
    /\ UNCHANGED <<project, status, commit_log>>

OpenFileDialog == FileMenuItem(FileDialogReasons) /\ UNCHANGED nEdits

\* a click on the "Apply smart naming on import" checkbox of the File menu
SmartNamingCheckbox ==
    /\ status = "running"
    /\ app' = [app EXCEPT !.apply_smart_naming_on_import = ~@]
    /\ op' = "toggle_smart_naming"
    /\ ret' = NoRet
    /\ before' = project
    /\ UNCHANGED <<project, status, commit_log>>

ToggleSmartNaming == SmartNamingCheckbox /\ UNCHANGED nEdits

\* one of the dialogs is closed, with a file picked or without
DialogTask ==
    /\ status = "running"
    /\ \E i \in DOMAIN app.tasks :
         \E picked \in {<<>>} \cup { <<f>> : f \in ChannelFiles } :
             /\ app' = dialog_task(app, i, picked)
             /\ op' = "dialog_task"
             /\ ret' = [ changed |-> FALSE, id |-> NULL_ID,
                         request |-> app.tasks[i].request, picked |-> picked ]
    /\ before' = project
    /\ UNCHANGED <<project, status, nEdits, commit_log>>

\* the start of a tick with bytes in the channel
HandleFileLoaded ==
    /\ status = "running"
    /\ app.file_channel # <<>>
    /\ LET h == handle_file_loaded_from_channel(app, project)
       IN  /\ app' = h.app
           /\ project' = h.project
    /\ op' = "handle_file_loaded"
    /\ ret' = [ changed |-> FALSE, id |-> NULL_ID,
                handled_as |-> app.file_dialog_reason,
                requested_as |-> Head(app.file_channel).request,
                content |-> Head(app.file_channel).content ]
    /\ before' = project
    /\ UNCHANGED <<status, nEdits, commit_log>>

ChannelNext == OpenFileDialog \/ ToggleSmartNaming \/ DialogTask \/ HandleFileLoaded

ChannelSpec == ChannelInit /\ [][ChannelNext]_vars

(***************************************************************************)
(* TickSpec: the handlers in the order DesignerApp::update runs them       *)
(***************************************************************************)
\* file dialogs opened per behaviour of TickSpec
MaxTickFiles == 1

\* the imported pool: a working set listed behind its data mask
TickImportPools ==
    { <<DataMaskObj(1, <<>>), WorkingSetObj(0, 1, <<>>)>> }

\* where the user leaves the mask size slider
DraggedMaskSize == 480

\* the file the user picks in a dialog
TickFiles == { IopFile(<<Obj(1, "DataMask")>>) }

\* where in DesignerApp::update the handler that ran last sits: the poll of the
\* file channel, the new-object dialog, the undo and redo buttons, the File
\* menu, the "Add object" menu, the mask size slider, the mouse back and forward
\* buttons, the left, central and parameters panels, update_pool;
\* update_selected ends the pass
TickRank(o) ==
    CASE o \in {"from", "update_selected"} -> 0
      [] o = "handle_file_loaded" -> 1
      [] o = "create" -> 2
      [] o = "undo" -> 3
      [] o = "redo" -> 4
      [] o = "open_file_dialog" -> 5
      [] o = "toggle_smart_naming" -> 6
      [] o = "generate_smart_name_for_new_object" -> 7
      [] o = "set_mask_size" -> 8
      [] o \in {"set_previous_selected", "set_next_selected"} -> 9
      [] o = "left_panel" -> 10
      [] o = "central_panel" -> 11
      [] o \in {"parameters_panel", "renumber", "set_parameter"} -> 12
      [] o = "update_pool" -> 13

TickInit == InitFrom(TickImportPools)

\* a dialog task ends and the bytes of the file picked go to the channel.  The
\* channel is read at the start of a pass only, so the task is taken to end
\* between two passes
TickDialogTask ==
    /\ status = "running"
    /\ TickRank(op) = 0
    /\ \E i \in DOMAIN app.tasks :
         \E picked \in {<<>>} \cup { <<f>> : f \in TickFiles } :
             app' = dialog_task(app, i, picked)
    /\ UNCHANGED <<project, status, op, ret, before, nEdits, commit_log>>

\* the pass reached the widget of the given rank: the widgets before it have
\* been drawn, and the bytes that waited in the channel when the pass began
\* have been taken by handle_file_loaded
PassBefore(rank) ==
    /\ TickRank(op) < rank
    /\ TickRank(op) = 0 => app.file_channel = <<>>

\* an input of the user that stages nothing; it is counted like a staged edit
TickInput(Handler) ==
    /\ nEdits < MaxTickEdits
    /\ Handler
    /\ nEdits' = nEdits + 1

\* one pass of DesignerApp::update.  The widgets with a handler are drawn in
\* source order and each handler runs at most once, whether or not the earlier
\* ones ran; the forward mouse button is looked at only when the back button
\* was not released (`else if`).  The three panels are drawn in every pass,
\* with or without input, then update_pool and update_selected close the pass.
\* RenumberObject is the parameters panel with the id of its object dragged,
\* SetParameter the panel with a field of its object set.
TickNext ==
    \/ TickRank(op) = 0 /\ HandleFileLoaded
    \/ PassBefore(2) /\ CreateObject(MaxTickEdits)
    \/ PassBefore(3) /\ Undo
    \/ PassBefore(4) /\ Redo
    \/ /\ PassBefore(5)
       /\ app.requests < MaxTickFiles
       /\ TickInput(FileMenuItem({"LoadPool"}))
    \/ PassBefore(6) /\ TickInput(SmartNamingCheckbox)
    \/ PassBefore(7) /\ TickInput(AddObjectItem(NewObjectTypes))
    \/ PassBefore(8) /\ TickInput(MaskSizeSlider({DraggedMaskSize}))
    \/ PassBefore(9) /\ SetPreviousSelected
    \/ PassBefore(9) /\ SetNextSelected
    \/ /\ PassBefore(10)
       /\ LeftPanel(MaxTickEdits, {"none", "click", "delete", "sort"})
       /\ ret'.input.open_depth = MaxOpenDepth
    \/ /\ op = "left_panel"
       /\ CentralPanel(MaxTickEdits)
       /\ ret'.input.pointer # "hover"
       /\ Cardinality(ret'.input.hit) <= 1
    \/ op = "central_panel" /\ ParametersPanel
    \/ op = "central_panel" /\ RenumberObject(MaxTickEdits, EditIds)
    \/ op = "central_panel" /\ SetParameter(MaxTickEdits)
    \/ TickRank(op) = 12 /\ UpdatePool
    \/ op = "update_pool" /\ UpdateSelected
    \/ TickDialogTask

TickSpec == TickInit /\ [][TickNext]_vars


\* C34: every file result taken from the channel is handled according to the
\* reason of the request that produced it, also when a second request was issued
\* before the result of the first was delivered.
C34_ResultHandledUnderItsReason ==
    (op = "handle_file_loaded" /\ "requested_as" \in DOMAIN ret) =>
        ret.handled_as = <<ret.requested_as>>

HistoryOps == {"update_pool", "undo", "redo"}

\* the objects the last handler took out of the committed pool
Uncommitted == PoolIds(before.pool) \ PoolIds(project.pool)

\* C35: commit, undo and redo of the pool leave the metadata table and the mask
\* size as they were; after undoing the creation of an object its metadata
\* entry is still present under its id.
C35_MetadataOutsideHistory ==
    op \in HistoryOps =>
        /\ project.object_info = before.object_info
        /\ project.mask_size = before.mask_size
        /\ \A id \in Uncommitted \cap DOMAIN before.object_info :
               /\ id \in DOMAIN project.object_info
               /\ project.object_info[id] = before.object_info[id]

\* the creation of a named object was undone after the mask size was changed
C35_Witness ==
    /\ op = "undo"
    /\ \E id \in Uncommitted : id \in DOMAIN project.object_info
    /\ project.mask_size # get_minimum_mask_sizes(project.pool)

\* the file read last stores a name for the object at index i
StoredName(i) ==
    /\ project.pool[i].id \in DOMAIN ret.metadata
    /\ ret.metadata[project.pool[i].id] # <<>>

\* C36: after loading a project file every object whose id has a name in the
\* file displays that name; the staged pool equals the committed pool, the four
\* history stacks are empty, and the last-selected id of the file is both the
\* committed and the staged selection.
C36_LoadReattachesMetadata ==
    op = "load_project" =>
        /\ \A i \in DOMAIN project.pool :
               StoredName(i) =>
                   /\ project.pool[i].id \in DOMAIN project.object_info
                   /\ DisplayedName(project, project.pool[i]) = ret.metadata[project.pool[i].id][1]
        /\ project.mut_pool = project.pool
        /\ project.undo_pool_history = <<>>
        /\ project.redo_pool_history = <<>>
        /\ project.undo_selected_history = <<>>
        /\ project.redo_selected_history = <<>>
        /\ project.selected_object = ret.last_selected
        /\ project.mut_selected_object = ret.last_selected

\* a file with a stored name for one of several objects and a last-selected id
\* was loaded
C36_Witness ==
    /\ op = "load_project"
    /\ Len(project.pool) >= 2
    /\ \E i \in DOMAIN project.pool : StoredName(i)
    /\ ret.last_selected # NULL_ID
    /\ project.selected_object = ret.last_selected

(***************************************************************************)
(* RefSpec: references added and re-targeted in the parameters panel       *)
(***************************************************************************)
MaxRefEdits == 3

\* the ids of the second pool of RefSpec
PanelIds ==
    [ WorkingSet |-> 0, AlarmMask |-> 1, SoftKeyMask |-> 2, Key |-> 3, InputList |-> 4,
      DataMask |-> 5, FillAttributes |-> 8, PictureGraphic |-> 10, Macro |-> 258,
      KeyMacro |-> 7 ]

\* a pointer with two parents of different rules, and a pool with the other
\* kinds of lists and combo boxes: a list of ids, a nullable list, fixed
\* selectors, a Macro whose id does not fit a macro id and one a key refers to
RefPools ==
    { << WorkingSetObj(GraphIds.WorkingSet, GraphIds.DataMask, <<GraphIds.ObjectPointer>>),
         DataMaskObj(GraphIds.DataMask, <<GraphIds.Container>>),
         ContainerObj(GraphIds.Container, FALSE, <<GraphIds.ObjectPointer>>),
         ObjectPointerObj(GraphIds.ObjectPointer, NULL_ID),
         Obj(GraphIds.Missing, "OutputString") >>,
      << WorkingSetObj(PanelIds.WorkingSet, PanelIds.DataMask, <<PanelIds.PictureGraphic>>),
         DataMaskObj(PanelIds.DataMask, <<>>),
         [ id |-> PanelIds.AlarmMask, type |-> "AlarmMask",
           object_refs |-> <<PanelIds.PictureGraphic>> ],
         [ id |-> PanelIds.SoftKeyMask, type |-> "SoftKeyMask",
           objects |-> <<PanelIds.Key, PanelIds.Key>> ],
         [ id |-> PanelIds.Key, type |-> "Key", object_refs |-> <<>>,
           macro_refs |-> <<PanelIds.KeyMacro>> ],
         [ id |-> PanelIds.InputList, type |-> "InputList",
           list_items |-> <<NULL_ID, PanelIds.PictureGraphic>> ],
         [ id |-> PanelIds.FillAttributes, type |-> "FillAttributes", fill_type |-> 3 ],
         Obj(PanelIds.PictureGraphic, "PictureGraphic"),
         Obj(PanelIds.Macro, "Macro"),
         Obj(PanelIds.KeyMacro, "Macro") >> }

RefInit == InitFrom(RefPools)

\* what an edit of a reference leaves in `ret`: the type of the edited object,
\* the field or list, the object picked and the types the control was handed
ReferenceEdit(object, field, target, types) ==
    [ changed |-> FALSE, id |-> NULL_ID, parent_type |-> object.type,
      field |-> field, target |-> target, types |-> types ]

\* render_add_object_id under a list of child references: the pick is pushed
AddObjectReference ==
    /\ PanelShowsObject(project)
    /\ \E desc \in Range(PanelLists(PanelObject(project).type)) :
             /\ desc.list # "macros"
             /\ \E id \in AddOffers(project.pool, desc) :
                  EditedInPanel("add_object_reference",
                                PanelInput("add", desc.field, 0, id),
                                ReferenceEdit(PanelObject(project), desc.field, id,
                                              desc.allowed),
                                MaxRefEdits)

\* the selector of row idx of a list of child references
RetargetReference ==
    /\ PanelShowsObject(project)
    /\ \E desc \in Range(PanelLists(PanelObject(project).type)) :
         LET list == Field(PanelObject(project), desc.field, <<>>)
         IN  /\ desc.list # "macros"
             /\ \E idx \in DOMAIN list :
                  \E id \in RowOffers(project.pool, desc, list[idx]) \ {list[idx]} :
                      EditedInPanel("retarget_reference",
                                    PanelInput("retarget", desc.field, idx, id),
                                    ReferenceEdit(PanelObject(project), desc.field, id,
                                                  desc.allowed),
                                    MaxRefEdits)

\* render_index_modifiers: a button of row idx of a list of the panel, where the
\* button is enabled
ClickIndexModifier(name, clicked) ==
    /\ PanelShowsObject(project)
    /\ \E desc \in Range(PanelLists(PanelObject(project).type)) :
         LET list == Field(PanelObject(project), desc.field, <<>>)
         IN  \E idx \in DOMAIN list :
                /\ clicked = "move_up" => idx > 1
                /\ clicked = "move_down" => idx < Len(list)
                /\ EditedInPanel(name, PanelInput(clicked, desc.field, idx, NULL_ID),
                                 ReferenceEdit(PanelObject(project), desc.field,
                                               list[idx], desc.allowed),
                                 MaxRefEdits)

RemoveReference == ClickIndexModifier("remove_reference", "remove")
MoveReferenceUp == ClickIndexModifier("move_reference_up", "move_up")
MoveReferenceDown == ClickIndexModifier("move_reference_down", "move_down")

\* a combo box of the panel that sets one reference of the object, other than
\* the one of an ObjectPointer
SelectReference ==
    /\ PanelShowsObject(project)
    /\ PanelObject(project).type # "ObjectPointer"
    /\ \E s \in PanelSelectors(PanelObject(project), project.pool) :
         \E id \in SelectorOffers(project.pool, s)
                      \ { Field(PanelObject(project), s.field,
                                IF s.nullable THEN NULL_ID ELSE 0) } :
             EditedInPanel("select_reference", PanelInput("select", s.field, 0, id),
                           ReferenceEdit(PanelObject(project), s.field, id, s.types),
                           MaxRefEdits)

\* the "Object reference" combo box of an ObjectPointer: "None" or a candidate
SetPointerValue ==
    /\ PanelShowsObject(project)
    /\ LET obj == PanelObject(project)
       IN  /\ obj.type = "ObjectPointer"
           /\ \E value \in (ObjectPointer_candidates(project.pool, obj.id) \cup {NULL_ID})
                              \ {obj.value} :
                EditedInPanel("set_pointer_value", PanelInput("select", "value", 0, value),
                    [ changed |-> FALSE, id |-> NULL_ID, pointer |-> obj.id,
                      target |-> value,
                      candidates |-> ObjectPointer_candidates(project.pool, obj.id) ],
                    MaxRefEdits)

\* render_add_macro_reference with an event chosen: the macro picked is pushed
AddMacroReference ==
    /\ PanelShowsObject(project)
    /\ PanelObject(project).type \in MacroOwnerTypes
    /\ \E id \in render_object_id_selector(project.pool, <<"Macro">>) :
         EditedInPanel("add_macro_reference", PanelInput("add", "macro_refs", 0, id),
                       ReferenceEdit(PanelObject(project), "macro_refs", id, <<"Macro">>),
                       MaxRefEdits)

\* the "macro_id" combo box of row idx of the macros, shown for a row whose
\* Macro object the pool holds: the macro id of the Macro picked is stored
RetargetMacroReference ==
    /\ PanelShowsObject(project)
    /\ PanelObject(project).type \in MacroOwnerTypes
    /\ LET list == Field(PanelObject(project), "macro_refs", <<>>)
           macros == [field |-> "macro_refs", list |-> "macros", allowed |-> <<"Macro">>]
       IN  \E idx \in DOMAIN list :
               \E id \in RowOffers(project.pool, macros, list[idx]) :
                   /\ MacroId(id) # list[idx]
                   /\ EditedInPanel("retarget_macro_reference",
                                    PanelInput("retarget", "macro_refs", idx, id),
                                    ReferenceEdit(PanelObject(project), "macro_refs", id,
                                                  <<"Macro">>),
                                    MaxRefEdits)

\* a link of the panel clicked
FollowLink ==
    /\ PanelShowsObject(project)
    /\ \E id \in PanelLinks(PanelObject(project), project.pool) :
         EditedInPanel("follow_link", PanelInput("view", "", 0, id),
                       ReferenceEdit(PanelObject(project), "", id, <<>>),
                       MaxRefEdits)

RefNext ==
    \/ SelectObject(MaxRefEdits, PoolIds(project.pool))
    \/ DeleteObject(MaxRefEdits, PoolIds(project.pool))
    \/ AddObjectReference
    \/ RetargetReference
    \/ RemoveReference
    \/ MoveReferenceUp
    \/ MoveReferenceDown
    \/ SelectReference
    \/ SetPointerValue
    \/ AddMacroReference
    \/ RetargetMacroReference
    \/ SetParameter(MaxRefEdits)
    \/ FollowLink
    \/ UpdatePool
    \/ UpdateSelected

RefSpec == RefInit /\ [][RefNext]_vars

\* the type of the object of the pool with the id
TypeOf(pool, id) == object_by_id(pool, id).type

\* the ids of the objects a pointer may refer to: the objects of the pool whose
\* type the schema allows as a child of an object that refers to the pointer
AllowedByAParent(pool, pointer) ==
    { o.id : o \in { x \in Range(pool) :
          \E parent \in Range(pool) :
              /\ pointer \in Range(referenced_objects(parent))
              /\ x.type \in Range(get_allowed_child_refs(parent.type, Version3)) } }

\* the object picked exists in the pool and its type is one of `types`
PicksObjectOf(pool, target, types) ==
    /\ HasObject(pool, target)
    /\ TypeOf(pool, target) \in Range(types)

\* an ObjectPointer is offered exactly the objects whose type is allowed as a
\* child of one of its parents
PointerGated ==
    op = "set_pointer_value" =>
        /\ ret.candidates = AllowedByAParent(before.pool, ret.pointer)
        /\ ret.target # NULL_ID => ret.target \in ret.candidates

\* C37 as worded: every reference added or re-targeted through the add-object
\* and id-selector controls of the parameters panel points to an object of the
\* committed pool whose type the schema allows, at VT version 3, as a child of
\* the type of the parent.
C37_Original ==
    /\ (/\ op \in {"add_object_reference", "retarget_reference", "select_reference"}
        /\ ret.target # NULL_ID) =>
           PicksObjectOf(before.pool, ret.target,
                         get_allowed_child_refs(ret.parent_type, Version3))
    /\ PointerGated

\* C37: a reference added or re-targeted in a list of child references of the
\* parameters panel is None (nullable lists) or points to an object of the
\* committed pool whose type the schema allows, at VT version 3, as a child of
\* the type of the parent; a combo box that sets a single reference offers the
\* objects of the committed pool of its own fixed list of types, whatever the
\* schema says; an ObjectPointer is offered exactly the objects whose type is
\* allowed as a child of one of its parents.
C37_SchemaGatesReferences ==
    /\ (op \in {"add_object_reference", "retarget_reference"} /\ ret.target # NULL_ID) =>
           PicksObjectOf(before.pool, ret.target,
                         get_allowed_child_refs(ret.parent_type, Version3))
    /\ (op \in {"add_object_reference", "retarget_reference"} /\ ret.target = NULL_ID) =>
           ret.field = "list_items"
    /\ (op = "select_reference" /\ ret.target # NULL_ID) =>
           PicksObjectOf(before.pool, ret.target, ret.types)
    /\ PointerGated

\* a reference was added to an object that the staged pool no longer holds
C37_Witness ==
    /\ op = "add_object_reference"
    /\ HasObject(before.pool, ret.target)
    /\ ~HasObject(before.mut_pool, ret.target)

\* a pointer with two parents was given a target
C37_WitnessPointer ==
    /\ op = "set_pointer_value"
    /\ ret.target # NULL_ID
    /\ Len(parent_objects(before.pool, ret.pointer)) >= 2

\* the active mask of a working set was set to a mask, which the schema does
\* not allow as a child of a working set
C37_WitnessSelector ==
    /\ op = "select_reference"
    /\ ret.parent_type = "WorkingSet"
    /\ ret.field = "active_mask"
    /\ HasObject(before.pool, ret.target)
    /\ TypeOf(before.pool, ret.target)
           \notin Range(get_allowed_child_refs("WorkingSet", Version3))
    /\ IdField(PanelObject(project), "active_mask") = ret.target

\* the types get_allowed_child_refs has a match arm for
DispatchedTypes ==
    { "WorkingSet", "DataMask", "AlarmMask", "Container", "SoftKeyMask", "Key",
      "Button", "InputList", "OutputList", "AuxiliaryFunctionType1",
      "AuxiliaryInputType1", "AuxiliaryFunctionType2", "AuxiliaryInputType2",
      "WindowMask", "KeyGroup", "Animation", "ObjectLabelReferenceList" }

\* the types that fall through to `_ => vec![]`
NoRuleTypes == ObjectTypes \ DispatchedTypes

\* C38: for every object type without a rule in the schema dispatch and for
\* ObjectLabelReferenceList the list of allowed children is empty at every VT
\* version, and a call returns what every other call with the same type and
\* version returns.
C38_ChildlessTypesEmpty ==
    op = "get_allowed_child_refs" =>
        /\ ret.obj_type \in NoRuleTypes \cup {"ObjectLabelReferenceList"} =>
               ret.allowed = <<>>
        /\ ret.obj_type \in ObjectTypes =>
               ret.allowed = get_allowed_child_refs(ret.obj_type, ret.version)

\* the schema was asked for ObjectLabelReferenceList at a version of 4 or more
C38_Witness ==
    /\ op = "get_allowed_child_refs"
    /\ ret.obj_type = "ObjectLabelReferenceList"
    /\ ret.version >= 4
    /\ ret.allowed = <<>>

\* the schema was asked for a type without a rule
C38_WitnessNoRule ==
    /\ op = "get_allowed_child_refs"
    /\ ret.obj_type \in {"NumberVariable", "StringVariable", "Macro", "ObjectPointer"}
    /\ ret.allowed = <<>>

(***************************************************************************)
(* ContextSpec: contextual naming applied to single objects                *)
(***************************************************************************)
MaxContainerHeight == 320

\* key_code is a u8
KeyCodes == 0 .. 255

\* the objects named: every key and button, containers up to
\* MaxContainerHeight high, and one object of every other type
ContextObjects ==
    { NamedObj(1, t, key_code, 0) : t \in {"Key", "Button"}, key_code \in KeyCodes }
        \cup { NamedObj(1, "Container", 0, height) : height \in 0 .. MaxContainerHeight }
        \cup { NamedObj(1, t, 0, 0) : t \in ObjectTypes \ {"Key", "Button", "Container"} }

\* a call of smart_naming::generate_contextual_name: `ret` holds the object and
\* the Option returned
GenerateContextualName ==
    /\ status = "running"
    /\ \E object \in ContextObjects :
         /\ op' = "generate_contextual_name"
         /\ ret' = [ changed |-> FALSE, id |-> NULL_ID, object |-> object,
                     name |-> generate_contextual_name(object) ]
    /\ UNCHANGED <<project, status, before, nEdits, commit_log, app>>

ContextSpec == InitFrom({ <<>> }) /\ [][GenerateContextualName]_vars

\* what contextual naming returns for a Key and for a Container, and for the
\* types it has no heuristic for
NamedAsKeyOrContainer ==
    LET object == ret.object
    IN  /\ (object.type = "Key" /\ object.key_code = 0) => ret.name = <<"ACK/Enter Key">>
        /\ (object.type = "Key" /\ object.key_code = 1) => ret.name = <<"ESC Key">>
        /\ (object.type = "Key" /\ object.key_code \in 2 .. 7) =>
               \E n \in 1 .. 6 : /\ n = object.key_code - 1
                                 /\ ret.name = <<"Soft Key " \o ToString(n)>>
        /\ (object.type = "Key" /\ object.key_code > 7) => ret.name = <<>>
        /\ (object.type = "Container" /\ object.height > 300) =>
               ret.name = <<"Main Container">>
        /\ (object.type = "Container" /\ object.height < 100) =>
               ret.name = <<"Header Container">>
        /\ (object.type = "Container" /\ object.height \in 100 .. 300) => ret.name = <<>>
        /\ (object.type = "Button" /\ object.key_code > 1) => ret.name = <<>>
        /\ object.type \notin {"Key", "Button", "Container"} => ret.name = <<>>

\* C39 as stated: besides the names of keys and containers, a Button with code 0
\* is named "OK" and one with code 1 "Cancel".
C39_Original ==
    op = "generate_contextual_name" =>
        /\ NamedAsKeyOrContainer
        /\ (ret.object.type = "Button" /\ ret.object.key_code = 0) => ret.name = <<"OK">>
        /\ (ret.object.type = "Button" /\ ret.object.key_code = 1) => ret.name = <<"Cancel">>

\* C39: contextual naming maps a Key with code 0 to "ACK/Enter Key", code 1 to
\* "ESC Key", codes 2-7 to "Soft Key 1" .. "Soft Key 6", a Button with code 0 to
\* "OK Button" and code 1 to "Cancel Button", a Container higher than 300 to
\* "Main Container" and lower than 100 to "Header Container", and returns none
\* for every other object, a Container 100 to 300 high included.
C39_ContextualNames ==
    op = "generate_contextual_name" =>
        /\ NamedAsKeyOrContainer
        /\ (ret.object.type = "Button" /\ ret.object.key_code = 0) =>
               ret.name = <<"OK Button">>
        /\ (ret.object.type = "Button" /\ ret.object.key_code = 1) =>
               ret.name = <<"Cancel Button">>

\* a Button with code 0 was named
C39_Witness ==
    /\ op = "generate_contextual_name"
    /\ ret.object.type = "Button"
    /\ ret.object.key_code = 0
    /\ ret.name = <<"OK Button">>

\* the highest id of a pool that is not empty
HighestId(pool) == CHOOSE m \in PoolIds(pool) : \A i \in PoolIds(pool) : i <= m

\* C40: a project created from an imported pool has the staged pool equal to
\* the committed pool, no committed and no staged selection, four empty history
\* stacks (undo_available and redo_available false), an empty metadata table and
\* the allocator cursor at the highest id of the pool plus one (at 1 for a pool
\* without objects).
C40_FreshProject ==
    op = "from" =>
        /\ project.mut_pool = project.pool
        /\ project.selected_object = NULL_ID
        /\ project.mut_selected_object = NULL_ID
        /\ project.undo_pool_history = <<>>
        /\ project.redo_pool_history = <<>>
        /\ project.undo_selected_history = <<>>
        /\ project.redo_selected_history = <<>>
        /\ ~undo_available(project)
        /\ ~redo_available(project)
        /\ DOMAIN project.object_info = {}
        /\ project.next_available_id =
               IF project.pool = <<>> THEN 1 ELSE HighestId(project.pool) + 1

\* a project was created from a pool of two objects
C40_Witness ==
    /\ op = "from"
    /\ Len(project.pool) = 2
    /\ project.next_available_id = 2

====
